---- MODULE Spec2Model ----
(***************************************************************************)
(* The configuration diff engine of the configuration processor:          *)
(*   src/src/differ/comparator.py  DiffComparator (matcher, field differ,  *)
(*                                 one comparator per entity kind)         *)
(*   src/src/differ/models.py      FieldChange, ObjectChange, DiffResult   *)
(*                                                                         *)
(* Python values are tagged tuples, so that None, "", 0 and False stay     *)
(* distinct and comparable.  An object reference is the position of the    *)
(* object in the list that holds it: two objects with equal field values   *)
(* at different positions are different objects.                           *)
(***************************************************************************)
EXTENDS Integers, Sequences, FiniteSets, TLC

VARIABLES
    pc,         \* position of the run: "start", then "matched", "done", "read",
                \* "parsed", "rerun", "totalled", "shown", "edited" or "reread"
    list_a,     \* _match_objects: argument list_a
    list_b,     \* _match_objects: argument list_b
    match_out,  \* _match_objects: the returned (matched, only_in_a, only_in_b)
    config_a,   \* compare: the "before" Configuration
    config_b,   \* compare: the "after" Configuration
    aliased,    \* TRUE when config_b is the very object config_a
    proc,       \* the running interpreter: where objects live, how str hashes
    result,     \* the DiffResult returned by compare
    shown,      \* the changes a walk over the kinds of the result has shown
    result_2,   \* the DiffResult of a second run of compare on the same snapshots
    shown_types, \* the kinds object_types_with_changes returned for the walk
    totals,     \* total_changes of each record of result.changes
    calls,      \* two calls of compare on one DiffComparator: the comparator's
                \* attributes and each call's arguments, position and locals
    upload      \* one upload job: its thread, its tracker in the registry of
                \* progress_tracker, and the response stream of /ai-progress

\* the variables of the differ
diff_vars == <<pc, list_a, list_b, match_out, config_a, config_b, aliased, proc, result,
               shown, result_2, shown_types, totals>>

vars == <<pc, list_a, list_b, match_out, config_a, config_b, aliased, proc, result, shown,
          result_2, shown_types, totals, calls, upload>>

(***************************************************************************)
(* Python values                                                           *)
(***************************************************************************)
None == <<"none">>
Str(s) == <<"str", s>>
Num(n) == <<"int", n>>
Bool(b) == <<"bool", b>>
List(q) == <<"list", q>>
Dict(d) == <<"dict", d>>

\* bool(v): None, "", 0, False and [] are falsy
Truthy(v) ==
    /\ v # None
    /\ v # Str("")
    /\ v # Num(0)
    /\ v # Bool(FALSE)
    /\ v # List(<<>>)

\* "if obj_id:" and "if obj_name:": a key is used only when it is truthy
KeySet_NotNone(v) == v # None

KeySet(v) == Truthy(v)

\* getattr(obj, name, None)
getattr(obj, name) == IF name \in DOMAIN obj THEN obj[name] ELSE None

\* a dict, and d[k] = v
EmptyDict == [k \in {} |-> 0]
DictPut(d, k, v) == [x \in (DOMAIN d) \cup {k} |-> IF x = k THEN v ELSE d[x]]

\* the num_field=None default of _match_objects
NoField == ""

(***************************************************************************)
(* DiffComparator._match_objects                                           *)
(***************************************************************************)
\* b_by_id: the objects of list_b with a truthy id; a later object replaces
\* an earlier one under the same key
\* a later object does not replace an earlier one under the same key
RECURSIVE b_by_id_FirstWins(_, _, _, _)
b_by_id_FirstWins(lb, id_field, j, acc) ==
    IF j > Len(lb) THEN acc
    ELSE LET obj_id == getattr(lb[j], id_field)
         IN b_by_id_FirstWins(lb, id_field, j + 1,
                              IF KeySet(obj_id) /\ obj_id \notin DOMAIN acc
                              THEN DictPut(acc, obj_id, j) ELSE acc)

RECURSIVE b_by_id(_, _, _, _)
b_by_id(lb, id_field, j, acc) ==
    IF j > Len(lb) THEN acc
    ELSE LET obj_id == getattr(lb[j], id_field)
         IN b_by_id(lb, id_field, j + 1,
                    IF KeySet(obj_id) THEN DictPut(acc, obj_id, j) ELSE acc)

RECURSIVE b_by_name(_, _, _, _)
b_by_name(lb, name_field, j, acc) ==
    IF j > Len(lb) THEN acc
    ELSE LET obj_name == getattr(lb[j], name_field)
         IN b_by_name(lb, name_field, j + 1,
                      IF KeySet(obj_name) THEN DictPut(acc, obj_name, j) ELSE acc)

RECURSIVE b_by_num(_, _, _, _)
b_by_num(lb, num_field, j, acc) ==
    IF j > Len(lb) \/ num_field = NoField THEN acc
    ELSE LET obj_num == getattr(lb[j], num_field)
         IN b_by_num(lb, num_field, j + 1,
                     IF obj_num # None THEN DictPut(acc, obj_num, j) ELSE acc)

\* the match of one object of A: the position in list_b of the object found,
\* 0 for match = None
MatchOne_NameFirst(obj_a, by_id, by_num, by_name, id_field, name_field, num_field) ==
    LET obj_a_id == getattr(obj_a, id_field)
        obj_a_name == getattr(obj_a, name_field)
        obj_a_num == IF num_field # NoField THEN getattr(obj_a, num_field) ELSE None
    IN  IF KeySet(obj_a_name) /\ obj_a_name \in DOMAIN by_name THEN by_name[obj_a_name]
        ELSE IF obj_a_num # None /\ obj_a_num \in DOMAIN by_num THEN by_num[obj_a_num]
        ELSE IF KeySet(obj_a_id) /\ obj_a_id \in DOMAIN by_id THEN by_id[obj_a_id]
        ELSE 0

MatchOne(obj_a, by_id, by_num, by_name, id_field, name_field, num_field) ==
    LET obj_a_id == getattr(obj_a, id_field)
        obj_a_name == getattr(obj_a, name_field)
        obj_a_num == IF num_field # NoField THEN getattr(obj_a, num_field) ELSE None
    IN  IF KeySet(obj_a_id) /\ obj_a_id \in DOMAIN by_id THEN by_id[obj_a_id]
        ELSE IF obj_a_num # None /\ obj_a_num \in DOMAIN by_num THEN by_num[obj_a_num]
        ELSE IF KeySet(obj_a_name) /\ obj_a_name \in DOMAIN by_name THEN by_name[obj_a_name]
        ELSE 0

\* the end of the loop body: record the pair and the matched B object, or
\* keep the A object as unmatched
MatchStep_AlwaysOnlyInA(acc, i, match) ==
    IF match # 0
    THEN [matched |-> Append(acc.matched, <<i, match>>),
          only_in_a |-> Append(acc.only_in_a, i),
          matched_b_ids |-> acc.matched_b_ids \cup {match}]
    ELSE [acc EXCEPT !.only_in_a = Append(acc.only_in_a, i)]

MatchStep(acc, i, match) ==
    IF match # 0
    THEN [acc EXCEPT !.matched = Append(acc.matched, <<i, match>>),
                     !.matched_b_ids = acc.matched_b_ids \cup {match}]
    ELSE [acc EXCEPT !.only_in_a = Append(acc.only_in_a, i)]

RECURSIVE MatchLoop(_, _, _, _, _, _, _, _, _)
MatchLoop(la, by_id, by_num, by_name, id_field, name_field, num_field, i, acc) ==
    IF i > Len(la) THEN acc
    ELSE MatchLoop(la, by_id, by_num, by_name, id_field, name_field, num_field, i + 1,
                   MatchStep(acc, i,
                             MatchOne(la[i], by_id, by_num, by_name,
                                      id_field, name_field, num_field)))

\* the objects of list_b whose identity is not in matched_b_ids, in list order
\* every B object, matched or not
OnlyInB_All(lb, matched_b_ids, j) == [k \in 1..Len(lb) |-> k]

RECURSIVE OnlyInB(_, _, _)
OnlyInB(lb, matched_b_ids, j) ==
    IF j > Len(lb) THEN <<>>
    ELSE (IF j \in matched_b_ids THEN <<>> ELSE <<j>>) \o OnlyInB(lb, matched_b_ids, j + 1)

\* matched is a list of pairs <<position in list_a, position in list_b>>,
\* only_in_a and only_in_b are lists of positions
_match_objects(la, lb, id_field, name_field, num_field) ==
    LET by_id == b_by_id(lb, id_field, 1, EmptyDict)
        by_name == b_by_name(lb, name_field, 1, EmptyDict)
        by_num == b_by_num(lb, num_field, 1, EmptyDict)
        acc == MatchLoop(la, by_id, by_num, by_name, id_field, name_field, num_field, 1,
                         [matched |-> <<>>, only_in_a |-> <<>>, matched_b_ids |-> {}])
    IN  [matched |-> acc.matched,
         only_in_a |-> acc.only_in_a,
         only_in_b |-> OnlyInB(lb, acc.matched_b_ids, 1)]

(***************************************************************************)
(* str() and f-strings                                                     *)
(***************************************************************************)
Digits == <<"0", "1", "2", "3", "4", "5", "6", "7", "8", "9">>

RECURSIVE NatToStr(_)
NatToStr(n) == IF n < 10 THEN Digits[n + 1] ELSE NatToStr(n \div 10) \o Digits[(n % 10) + 1]

IntToStr(n) == IF n < 0 THEN "-" \o NatToStr(0 - n) ELSE NatToStr(n)

\* the text of str(v)
StrText(v) ==
    CASE v[1] = "str" -> v[2]
      [] v[1] = "int" -> IntToStr(v[2])
      [] v[1] = "bool" -> (IF v[2] THEN "True" ELSE "False")
      [] OTHER -> "None"

str(v) == Str(StrText(v))

\* a or b
Or(a, b) == IF Truthy(a) THEN a ELSE b

\* id(obj): the address of the object in this interpreter. ref numbers the
\* object among the objects of the two configurations.
id(ref) == Num(proc.heap + ref)

\* the place of the objects of a list owned by object number i of a
\* top-level list: object k of that list has ref ListRef(..) + k
SideA == 1
SideB == IF aliased THEN 1 ELSE 2
ListRef(side, kind, i) == ((side * 10 + kind) * 10 + i) * 10

(***************************************************************************)
(* differ/models.py: FieldChange, ObjectChange                             *)
(***************************************************************************)
FieldChange(field_name, old_value, new_value, change_type) ==
    [field_name |-> field_name, old_value |-> old_value,
     new_value |-> new_value, change_type |-> change_type]

ObjectChange(object_type, object_name, object_id, change_type, field_changes, nested_changes, extra_info) ==
    [object_type |-> object_type, object_name |-> object_name,
     object_id |-> object_id, change_type |-> change_type,
     field_changes |-> field_changes, nested_changes |-> nested_changes,
     extra_info |-> extra_info]

\* the defaults of field_changes, nested_changes and extra_info
NoChanges == <<>>
NoInfo == EmptyDict

(***************************************************************************)
(* DiffComparator._compare_simple_fields                                   *)
(***************************************************************************)
\* "if val == '': val = None"
Normalize_Keep(v) == v

Normalize(v) == IF v = Str("") THEN None ELSE v

\* Python ==: a bool equals the int of its value
AsInt(v) == IF v[1] = "bool" THEN Num(IF v[2] THEN 1 ELSE 0) ELSE v
PyEq(a, b) == AsInt(a) = AsInt(b)

\* display_names.get(field_name, field_name)
DictGet(d, k, default) == IF k \in DOMAIN d THEN d[k] ELSE default

RECURSIVE _compare_simple_fields(_, _, _, _)
_compare_simple_fields(obj_a, obj_b, field_names, display_names) ==
    IF field_names = <<>> THEN <<>>
    ELSE LET field_name == Head(field_names)
             val_a == Normalize(getattr(obj_a, field_name))
             val_b == Normalize(getattr(obj_b, field_name))
             here == IF ~PyEq(val_a, val_b)
                     THEN <<FieldChange(DictGet(display_names, field_name, field_name),
                                        val_a, val_b, "modified")>>
                     ELSE <<>>
         IN  here \o _compare_simple_fields(obj_a, obj_b, Tail(field_names), display_names)

(***************************************************************************)
(* DiffComparator._get_object_id                                           *)
(***************************************************************************)
IdAttrs == <<"category_no", "process_no", "role_no", "user_no",
             "folder_no", "form_no", "query_no", "dictionary_no",
             "treeview_no", "counter_no", "datatype_no", "stamp_no",
             "policy_no", "case_def_no">>

RECURSIVE FirstNumericId(_, _, _)
FirstNumericId(obj, attrs, ref) ==
    IF attrs = <<>> THEN str(id(ref))
    ELSE LET val == getattr(obj, Head(attrs))
         IN  IF val # None THEN str(val) ELSE FirstNumericId(obj, Tail(attrs), ref)

_get_object_id(obj, ref) ==
    LET obj_id == getattr(obj, "id")
    IN  IF Truthy(obj_id) THEN str(obj_id) ELSE FirstNumericId(obj, IdAttrs, ref)

\* the concatenation of a list of lists: what a loop leaves in changes when
\* each pass appends the records of one list
RECURSIVE Concat(_)
Concat(qs) == IF Len(qs) = 0 THEN <<>> ELSE Head(qs) \o Concat(Tail(qs))

(***************************************************************************)
(* Category comparison                                                     *)
(***************************************************************************)
KindCategory == 1
KindCaseDefinition == 2

_compare_category_fields(fields_a, fields_b, ref_a, ref_b) ==
    LET m == _match_objects(fields_a, fields_b, "id", "caption", "field_no")
        Added(j) ==
            LET fld == fields_b[j]
            IN  ObjectChange("Field", fld.caption, _get_object_id(fld, ref_b + j), "added",
                             NoChanges, NoChanges, [type |-> fld.type_name])
        Removed(i) ==
            LET fld == fields_a[i]
            IN  ObjectChange("Field", fld.caption, _get_object_id(fld, ref_a + i), "removed",
                             NoChanges, NoChanges, [type |-> fld.type_name])
        Modified(pair) ==
            LET fld_a == fields_a[pair[1]]
                fld_b == fields_b[pair[2]]
                field_changes ==
                    _compare_simple_fields(fld_a, fld_b,
                        <<"caption", "type_no", "length", "index_type", "is_mandatory">>,
                        [type_no |-> "Type", index_type |-> "Index",
                         is_mandatory |-> "Mandatory"])
            IN  IF field_changes # <<>>
                THEN <<ObjectChange("Field", fld_b.caption,
                                    _get_object_id(fld_b, ref_b + pair[2]), "modified",
                                    field_changes, NoChanges, NoInfo)>>
                ELSE <<>>
    IN  [pos \in DOMAIN m.only_in_b |-> Added(m.only_in_b[pos])]
            \o [pos \in DOMAIN m.only_in_a |-> Removed(m.only_in_a[pos])]
            \o Concat([pos \in DOMAIN m.matched |-> Modified(m.matched[pos])])

_compare_categories(self) ==
    LET la == self.config_a.categories
        lb == self.config_b.categories
        m == _match_objects(la, lb, "id", "name", "category_no")
        Added(j) ==
            LET cat == lb[j]
            IN  ObjectChange("Category", cat.name, _get_object_id(cat, 0), "added",
                             NoChanges, NoChanges, [field_count |-> Num(Len(cat.fields))])
        Removed(i) ==
            LET cat == la[i]
            IN  ObjectChange("Category", cat.name, _get_object_id(cat, 0), "removed",
                             NoChanges, NoChanges, [field_count |-> Num(Len(cat.fields))])
        Modified(pair) ==
            LET cat_a == la[pair[1]]
                cat_b == lb[pair[2]]
                field_changes ==
                    _compare_simple_fields(cat_a, cat_b,
                        <<"name", "title", "description", "folder_no", "fulltext_mode",
                          "checkin_mode", "empty_doc_mode">>,
                        [fulltext_mode |-> "Full-text Mode", checkin_mode |-> "Check-in Mode",
                         empty_doc_mode |-> "Empty Document Mode", folder_no |-> "Folder"])
                nested_changes ==
                    _compare_category_fields(cat_a.fields, cat_b.fields,
                                             ListRef(SideA, KindCategory, pair[1]),
                                             ListRef(SideB, KindCategory, pair[2]))
            IN  IF field_changes # <<>> \/ nested_changes # <<>>
                THEN <<ObjectChange("Category", cat_b.name, _get_object_id(cat_b, 0),
                                    "modified", field_changes, nested_changes, NoInfo)>>
                ELSE <<>>
    IN  [pos \in DOMAIN m.only_in_b |-> Added(m.only_in_b[pos])]
            \o [pos \in DOMAIN m.only_in_a |-> Removed(m.only_in_a[pos])]
            \o Concat([pos \in DOMAIN m.matched |-> Modified(m.matched[pos])])

(***************************************************************************)
(* Case definition comparison                                              *)
(***************************************************************************)
_compare_case_definitions(self) ==
    LET la == self.config_a.case_definitions
        lb == self.config_b.case_definitions
        m == _match_objects(la, lb, "id", "name", "case_def_no")
        Added(j) ==
            LET case_def == lb[j]
            IN  ObjectChange("CaseDefinition", Or(case_def.title, case_def.name),
                             _get_object_id(case_def, 0), "added",
                             NoChanges, NoChanges,
                             [field_count |-> Num(Len(case_def.fields))])
        Removed(i) ==
            LET case_def == la[i]
            IN  ObjectChange("CaseDefinition", Or(case_def.title, case_def.name),
                             _get_object_id(case_def, 0), "removed",
                             NoChanges, NoChanges,
                             [field_count |-> Num(Len(case_def.fields))])
        Modified(pair) ==
            LET cd_a == la[pair[1]]
                cd_b == lb[pair[2]]
                field_changes ==
                    _compare_simple_fields(cd_a, cd_b,
                        <<"name", "title", "description", "folder_no", "checkin_mode",
                          "auto_append_mode">>,
                        [checkin_mode |-> "Check-in Mode",
                         auto_append_mode |-> "Auto-append Mode", folder_no |-> "Folder"])
                nested_changes ==
                    _compare_category_fields(cd_a.fields, cd_b.fields,
                                             ListRef(SideA, KindCaseDefinition, pair[1]),
                                             ListRef(SideB, KindCaseDefinition, pair[2]))
            IN  IF field_changes # <<>> \/ nested_changes # <<>>
                THEN <<ObjectChange("CaseDefinition", Or(cd_b.title, cd_b.name),
                                    _get_object_id(cd_b, 0), "modified",
                                    field_changes, nested_changes, NoInfo)>>
                ELSE <<>>
    IN  [pos \in DOMAIN m.only_in_b |-> Added(m.only_in_b[pos])]
            \o [pos \in DOMAIN m.only_in_a |-> Removed(m.only_in_a[pos])]
            \o Concat([pos \in DOMAIN m.matched |-> Modified(m.matched[pos])])

(***************************************************************************)
(* Workflow comparison                                                     *)
(***************************************************************************)
\* the elements of a set in the order a for loop visits them. The order of a
\* set of keys that hold a str follows the str hashes of the interpreter.
RECURSIVE SetToSeq(_)
SetToSeq(S) ==
    IF S = {} THEN <<>>
    ELSE LET x == CHOOSE y \in S : TRUE IN <<x>> \o SetToSeq(S \ {x})

RECURSIVE Reverse(_)
Reverse(q) == IF q = <<>> THEN <<>> ELSE Append(Reverse(Tail(q)), Head(q))

HashOrder(S) == IF proc.seed = 0 THEN SetToSeq(S) ELSE Reverse(SetToSeq(S))

\* {key(t): t for t in list}: the last object under each key
RECURSIVE DictByKey(_, _, _)
DictByKey(keys, k, acc) ==
    IF k > Len(keys) THEN acc
    ELSE DictByKey(keys, k + 1, DictPut(acc, keys[k], k))

trans_key(t) == <<Or(Or(t.action_text, t.name), Str("")), t.task_to_no>>

\* trans.name or trans.action_text or f"-> Task {trans.task_to_no}"
TransitionName(trans) ==
    Or(Or(trans.name, trans.action_text), Str("→ Task " \o StrText(trans.task_to_no)))

\* f"{trans.action_text}:{trans.task_to_no}"
TransitionId(trans) == Str(StrText(trans.action_text) \o ":" \o StrText(trans.task_to_no))

_compare_transitions(trans_a, trans_b) ==
    LET trans_a_by_key == DictByKey([pos \in DOMAIN trans_a |-> trans_key(trans_a[pos])], 1, EmptyDict)
        trans_b_by_key == DictByKey([pos \in DOMAIN trans_b |-> trans_key(trans_b[pos])], 1, EmptyDict)
        keys_a == DOMAIN trans_a_by_key
        keys_b == DOMAIN trans_b_by_key
        added_keys == keys_b \ keys_a
        removed_keys == keys_a \ keys_b
        common_keys == keys_a \cap keys_b
        Added(key) ==
            LET trans == trans_b[trans_b_by_key[key]]
            IN  ObjectChange("Transition", TransitionName(trans), TransitionId(trans),
                             "added", NoChanges, NoChanges, NoInfo)
        Removed(key) ==
            LET trans == trans_a[trans_a_by_key[key]]
            IN  ObjectChange("Transition", TransitionName(trans), TransitionId(trans),
                             "removed", NoChanges, NoChanges, NoInfo)
        Modified(key) ==
            LET tr_a == trans_a[trans_a_by_key[key]]
                tr_b == trans_b[trans_b_by_key[key]]
                field_changes ==
                    _compare_simple_fields(tr_a, tr_b, <<"condition">>,
                                           [condition |-> "Condition"])
            IN  IF field_changes # <<>>
                THEN <<ObjectChange("Transition", TransitionName(tr_b), TransitionId(tr_b),
                                    "modified", field_changes, NoChanges, NoInfo)>>
                ELSE <<>>
    IN  LET added_order == HashOrder(added_keys)
            removed_order == HashOrder(removed_keys)
            common_order == HashOrder(common_keys)
        IN  [pos \in DOMAIN added_order |-> Added(added_order[pos])]
                \o [pos \in DOMAIN removed_order |-> Removed(removed_order[pos])]
                \o Concat([pos \in DOMAIN common_order |-> Modified(common_order[pos])])

_compare_workflow_tasks(tasks_a, tasks_b) ==
    LET m == _match_objects(tasks_a, tasks_b, "id", "name", "task_no")
        Added(j) ==
            LET task == tasks_b[j]
            IN  ObjectChange("Task", task.name, _get_object_id(task, 0), "added",
                             NoChanges, NoChanges, [type |-> task.type_name])
        Removed(i) ==
            LET task == tasks_a[i]
            IN  ObjectChange("Task", task.name, _get_object_id(task, 0), "removed",
                             NoChanges, NoChanges, [type |-> task.type_name])
        Modified(pair) ==
            LET task_a == tasks_a[pair[1]]
                task_b == tasks_b[pair[2]]
                field_changes ==
                    _compare_simple_fields(task_a, task_b,
                        <<"name", "type_no", "duration", "seq_pos", "disable_delegation",
                          "action_type", "init_script">>,
                        [type_no |-> "Type", seq_pos |-> "Position",
                         disable_delegation |-> "Delegation Disabled",
                         action_type |-> "Action Type", init_script |-> "Init Script"])
                trans_changes == _compare_transitions(task_a.transitions, task_b.transitions)
            IN  IF field_changes # <<>> \/ trans_changes # <<>>
                THEN <<ObjectChange("Task", task_b.name, _get_object_id(task_b, 0),
                                    "modified", field_changes, trans_changes, NoInfo)>>
                ELSE <<>>
    IN  [pos \in DOMAIN m.only_in_b |-> Added(m.only_in_b[pos])]
            \o [pos \in DOMAIN m.only_in_a |-> Removed(m.only_in_a[pos])]
            \o Concat([pos \in DOMAIN m.matched |-> Modified(m.matched[pos])])

_compare_workflows(self) ==
    LET la == self.config_a.workflows
        lb == self.config_b.workflows
        m == _match_objects(la, lb, "id", "name", "process_no")
        Added(j) ==
            LET wf == lb[j]
            IN  ObjectChange("Workflow", wf.name, _get_object_id(wf, 0), "added",
                             NoChanges, NoChanges, [task_count |-> Num(Len(wf.tasks))])
        Removed(i) ==
            LET wf == la[i]
            IN  ObjectChange("Workflow", wf.name, _get_object_id(wf, 0), "removed",
                             NoChanges, NoChanges, [task_count |-> Num(Len(wf.tasks))])
        Modified(pair) ==
            LET wf_a == la[pair[1]]
                wf_b == lb[pair[2]]
                field_changes ==
                    _compare_simple_fields(wf_a, wf_b,
                        <<"name", "description", "enabled", "category_no", "folder_no",
                          "duration", "del_inst_days", "allow_manual", "attach_history",
                          "notify_on_error">>,
                        [enabled |-> "Enabled", category_no |-> "Category",
                         folder_no |-> "Folder", del_inst_days |-> "Delete After (days)",
                         allow_manual |-> "Manual Start", attach_history |-> "Attach History",
                         notify_on_error |-> "Error Notification"])
                nested_changes == _compare_workflow_tasks(wf_a.tasks, wf_b.tasks)
            IN  IF field_changes # <<>> \/ nested_changes # <<>>
                THEN <<ObjectChange("Workflow", wf_b.name, _get_object_id(wf_b, 0),
                                    "modified", field_changes, nested_changes, NoInfo)>>
                ELSE <<>>
    IN  [pos \in DOMAIN m.only_in_b |-> Added(m.only_in_b[pos])]
            \o [pos \in DOMAIN m.only_in_a |-> Removed(m.only_in_a[pos])]
            \o Concat([pos \in DOMAIN m.matched |-> Modified(m.matched[pos])])

(***************************************************************************)
(* Role comparison                                                         *)
(***************************************************************************)
\* every str a name, a keyword or a column can be, in ascending order, so
\* that sorted() is the restriction of this list to a set
SortedStrs == <<"", "alice", "bob", "carol", "city", "zip">>

RECURSIVE SortedFrom(_, _)
SortedFrom(universe, S) ==
    IF universe = <<>> THEN <<>>
    ELSE (IF Str(Head(universe)) \in S THEN <<Str(Head(universe))>> ELSE <<>>)
             \o SortedFrom(Tail(universe), S)

sorted(S) == List(SortedFrom(SortedStrs, S))

\* the display name in place of the user name
UserNameOf_DisplayName(u) == u.display_name

UserNameOf(u) == u.user_name

_compare_roles(self) ==
    LET la == self.config_a.roles
        lb == self.config_b.roles
        m == _match_objects(la, lb, "id", "name", "role_no")
        Info(role) == [is_deny |-> role.is_deny, permissions |-> List(role.permission_names)]
        Added(j) ==
            LET role == lb[j]
            IN  ObjectChange("Role", role.name, _get_object_id(role, 0), "added",
                             NoChanges, NoChanges, Info(role))
        Removed(i) ==
            LET role == la[i]
            IN  ObjectChange("Role", role.name, _get_object_id(role, 0), "removed",
                             NoChanges, NoChanges, Info(role))
        Modified(pair) ==
            LET role_a == la[pair[1]]
                role_b == lb[pair[2]]
                simple ==
                    _compare_simple_fields(role_a, role_b,
                        <<"name", "description", "is_deny", "permissions">>,
                        [is_deny |-> "Is Deny Role", permissions |-> "Permissions"])
                users_a == {UserNameOf(role_a.users[pos]) : pos \in DOMAIN role_a.users}
                users_b == {UserNameOf(role_b.users[pos]) : pos \in DOMAIN role_b.users}
                field_changes ==
                    simple \o (IF users_a # users_b
                               THEN <<FieldChange("Assigned Users", sorted(users_a),
                                                  sorted(users_b), "modified")>>
                               ELSE <<>>)
            IN  IF field_changes # <<>>
                THEN <<ObjectChange("Role", role_b.name, _get_object_id(role_b, 0),
                                    "modified", field_changes, NoChanges, NoInfo)>>
                ELSE <<>>
    IN  [pos \in DOMAIN m.only_in_b |-> Added(m.only_in_b[pos])]
            \o [pos \in DOMAIN m.only_in_a |-> Removed(m.only_in_a[pos])]
            \o Concat([pos \in DOMAIN m.matched |-> Modified(m.matched[pos])])

(***************************************************************************)
(* User comparison                                                         *)
(***************************************************************************)
UserTypeGroup == 2

_compare_users(self) ==
    LET la == self.config_a.users
        lb == self.config_b.users
        m == _match_objects(la, lb, "id", "user_name", "user_no")
        TypeOf(user) == IF user.user_type = Num(UserTypeGroup) THEN "Group" ELSE "User"
        Added(j) ==
            LET user == lb[j]
            IN  ObjectChange(TypeOf(user), Or(user.display_name, user.user_name),
                             _get_object_id(user, 0), "added",
                             NoChanges, NoChanges, [email |-> user.email])
        Removed(i) ==
            LET user == la[i]
            IN  ObjectChange(TypeOf(user), Or(user.display_name, user.user_name),
                             _get_object_id(user, 0), "removed",
                             NoChanges, NoChanges, [email |-> user.email])
        Modified(pair) ==
            LET user_a == la[pair[1]]
                user_b == lb[pair[2]]
                simple ==
                    _compare_simple_fields(user_a, user_b,
                        <<"user_name", "display_name", "email", "domain", "description">>,
                        EmptyDict)
                members_a == {UserNameOf(user_a.members[pos]) : pos \in DOMAIN user_a.members}
                members_b == {UserNameOf(user_b.members[pos]) : pos \in DOMAIN user_b.members}
                field_changes ==
                    simple \o (IF (user_a.members # <<>> \/ user_b.members # <<>>)
                                  /\ members_a # members_b
                               THEN <<FieldChange("Members", sorted(members_a),
                                                  sorted(members_b), "modified")>>
                               ELSE <<>>)
            IN  IF field_changes # <<>>
                THEN <<ObjectChange(TypeOf(user_b), Or(user_b.display_name, user_b.user_name),
                                    _get_object_id(user_b, 0), "modified",
                                    field_changes, NoChanges, NoInfo)>>
                ELSE <<>>
    IN  [pos \in DOMAIN m.only_in_b |-> Added(m.only_in_b[pos])]
            \o [pos \in DOMAIN m.only_in_a |-> Removed(m.only_in_a[pos])]
            \o Concat([pos \in DOMAIN m.matched |-> Modified(m.matched[pos])])

(***************************************************************************)
(* Folder comparison                                                       *)
(***************************************************************************)
RECURSIVE _flatten_folders(_)
_flatten_folders(folders) ==
    IF folders = <<>> THEN <<>>
    ELSE <<Head(folders)>> \o _flatten_folders(Head(folders).children)
             \o _flatten_folders(Tail(folders))

_compare_folders(self) ==
    LET folders_a == _flatten_folders(self.config_a.folders)
        folders_b == _flatten_folders(self.config_b.folders)
        m == _match_objects(folders_a, folders_b, "id", "name", "folder_no")
        Added(j) ==
            LET folder == folders_b[j]
            IN  ObjectChange("Folder", folder.name, _get_object_id(folder, 0), "added",
                             NoChanges, NoChanges, [type |-> folder.folder_type_name])
        Removed(i) ==
            LET folder == folders_a[i]
            IN  ObjectChange("Folder", folder.name, _get_object_id(folder, 0), "removed",
                             NoChanges, NoChanges, [type |-> folder.folder_type_name])
        Modified(pair) ==
            LET fld_a == folders_a[pair[1]]
                fld_b == folders_b[pair[2]]
                field_changes ==
                    _compare_simple_fields(fld_a, fld_b,
                        <<"name", "folder_type", "parent_no">>,
                        [folder_type |-> "Type", parent_no |-> "Parent Folder"])
            IN  IF field_changes # <<>>
                THEN <<ObjectChange("Folder", fld_b.name, _get_object_id(fld_b, 0),
                                    "modified", field_changes, NoChanges, NoInfo)>>
                ELSE <<>>
    IN  [pos \in DOMAIN m.only_in_b |-> Added(m.only_in_b[pos])]
            \o [pos \in DOMAIN m.only_in_a |-> Removed(m.only_in_a[pos])]
            \o Concat([pos \in DOMAIN m.matched |-> Modified(m.matched[pos])])

(***************************************************************************)
(* EForm comparison                                                        *)
(***************************************************************************)
RECURSIVE _count_components(_)
_count_components(components) ==
    IF components = <<>> THEN 0
    ELSE 1 + (IF Head(components).children # <<>>
              THEN _count_components(Head(components).children) ELSE 0)
           + _count_components(Tail(components))

_compare_eforms(self) ==
    LET la == self.config_a.eforms
        lb == self.config_b.eforms
        m == _match_objects(la, lb, "id", "name", "form_no")
        Added(j) ==
            LET eform == lb[j]
            IN  ObjectChange("EForm", eform.name, _get_object_id(eform, 0), "added",
                             NoChanges, NoChanges, [version |-> eform.version])
        Removed(i) ==
            LET eform == la[i]
            IN  ObjectChange("EForm", eform.name, _get_object_id(eform, 0), "removed",
                             NoChanges, NoChanges, [version |-> eform.version])
        Modified(pair) ==
            LET ef_a == la[pair[1]]
                ef_b == lb[pair[2]]
                simple ==
                    _compare_simple_fields(ef_a, ef_b, <<"name", "version", "folder_no">>,
                                           [folder_no |-> "Folder"])
                comp_count_a == _count_components(ef_a.components)
                comp_count_b == _count_components(ef_b.components)
                field_changes ==
                    simple \o (IF comp_count_a # comp_count_b
                               THEN <<FieldChange("Component Count", Num(comp_count_a),
                                                  Num(comp_count_b), "modified")>>
                               ELSE <<>>)
            IN  IF field_changes # <<>>
                THEN <<ObjectChange("EForm", ef_b.name, _get_object_id(ef_b, 0),
                                    "modified", field_changes, NoChanges, NoInfo)>>
                ELSE <<>>
    IN  [pos \in DOMAIN m.only_in_b |-> Added(m.only_in_b[pos])]
            \o [pos \in DOMAIN m.only_in_a |-> Removed(m.only_in_a[pos])]
            \o Concat([pos \in DOMAIN m.matched |-> Modified(m.matched[pos])])

(***************************************************************************)
(* Query comparison                                                        *)
(***************************************************************************)
_compare_queries(self) ==
    LET la == self.config_a.queries
        lb == self.config_b.queries
        m == _match_objects(la, lb, "id", "name", "query_no")
        Added(j) ==
            ObjectChange("Query", lb[j].name, _get_object_id(lb[j], 0), "added",
                         NoChanges, NoChanges, NoInfo)
        Removed(i) ==
            ObjectChange("Query", la[i].name, _get_object_id(la[i], 0), "removed",
                         NoChanges, NoChanges, NoInfo)
        Modified(pair) ==
            LET q_a == la[pair[1]]
                q_b == lb[pair[2]]
                field_changes ==
                    _compare_simple_fields(q_a, q_b,
                        <<"name", "description", "category_no", "folder_no">>,
                        [category_no |-> "Category", folder_no |-> "Folder"])
            IN  IF field_changes # <<>>
                THEN <<ObjectChange("Query", q_b.name, _get_object_id(q_b, 0),
                                    "modified", field_changes, NoChanges, NoInfo)>>
                ELSE <<>>
    IN  [pos \in DOMAIN m.only_in_b |-> Added(m.only_in_b[pos])]
            \o [pos \in DOMAIN m.only_in_a |-> Removed(m.only_in_a[pos])]
            \o Concat([pos \in DOMAIN m.matched |-> Modified(m.matched[pos])])

(***************************************************************************)
(* Dictionary comparison                                                   *)
(***************************************************************************)
\* every keyword taken for the same value
KeywordValueOf_Any(kw) == Str("")

KeywordValueOf(kw) == kw.value

_compare_dictionaries(self) ==
    LET la == self.config_a.keyword_dictionaries
        lb == self.config_b.keyword_dictionaries
        m == _match_objects(la, lb, "id", "name", "dictionary_no")
        Added(j) ==
            LET d == lb[j]
            IN  ObjectChange("Dictionary", d.name, _get_object_id(d, 0), "added",
                             NoChanges, NoChanges, [keyword_count |-> Num(Len(d.keywords))])
        Removed(i) ==
            LET d == la[i]
            IN  ObjectChange("Dictionary", d.name, _get_object_id(d, 0), "removed",
                             NoChanges, NoChanges, [keyword_count |-> Num(Len(d.keywords))])
        Modified(pair) ==
            LET d_a == la[pair[1]]
                d_b == lb[pair[2]]
                field_changes ==
                    _compare_simple_fields(d_a, d_b, <<"name", "description", "folder_no">>,
                                           [folder_no |-> "Folder"])
                kw_a == {KeywordValueOf(d_a.keywords[pos]) : pos \in DOMAIN d_a.keywords}
                kw_b == {KeywordValueOf(d_b.keywords[pos]) : pos \in DOMAIN d_b.keywords}
                added_kw == kw_b \ kw_a
                removed_kw == kw_a \ kw_b
                AddedKw(kw) == ObjectChange("Keyword", kw, kw, "added",
                                            NoChanges, NoChanges, NoInfo)
                RemovedKw(kw) == ObjectChange("Keyword", kw, kw, "removed",
                                              NoChanges, NoChanges, NoInfo)
                nested_changes ==
                    [pos \in DOMAIN HashOrder(added_kw) |-> AddedKw(HashOrder(added_kw)[pos])]
                        \o [pos \in DOMAIN HashOrder(removed_kw) |-> RemovedKw(HashOrder(removed_kw)[pos])]
            IN  IF field_changes # <<>> \/ nested_changes # <<>>
                THEN <<ObjectChange("Dictionary", d_b.name, _get_object_id(d_b, 0),
                                    "modified", field_changes, nested_changes, NoInfo)>>
                ELSE <<>>
    IN  [pos \in DOMAIN m.only_in_b |-> Added(m.only_in_b[pos])]
            \o [pos \in DOMAIN m.only_in_a |-> Removed(m.only_in_a[pos])]
            \o Concat([pos \in DOMAIN m.matched |-> Modified(m.matched[pos])])

(***************************************************************************)
(* TreeView comparison                                                     *)
(***************************************************************************)
_compare_treeviews(self) ==
    LET la == self.config_a.tree_views
        lb == self.config_b.tree_views
        m == _match_objects(la, lb, "id", "name", "treeview_no")
        Added(j) ==
            LET tv == lb[j]
            IN  ObjectChange("TreeView", tv.name, _get_object_id(tv, 0), "added",
                             NoChanges, NoChanges, [level_count |-> Num(Len(tv.levels))])
        Removed(i) ==
            LET tv == la[i]
            IN  ObjectChange("TreeView", tv.name, _get_object_id(tv, 0), "removed",
                             NoChanges, NoChanges, [level_count |-> Num(Len(tv.levels))])
        Modified(pair) ==
            LET tv_a == la[pair[1]]
                tv_b == lb[pair[2]]
                simple ==
                    _compare_simple_fields(tv_a, tv_b, <<"name", "category_no", "folder_no">>,
                                           [category_no |-> "Category", folder_no |-> "Folder"])
                field_changes ==
                    simple \o (IF Len(tv_a.levels) # Len(tv_b.levels)
                               THEN <<FieldChange("Level Count", Num(Len(tv_a.levels)),
                                                  Num(Len(tv_b.levels)), "modified")>>
                               ELSE <<>>)
            IN  IF field_changes # <<>>
                THEN <<ObjectChange("TreeView", tv_b.name, _get_object_id(tv_b, 0),
                                    "modified", field_changes, NoChanges, NoInfo)>>
                ELSE <<>>
    IN  [pos \in DOMAIN m.only_in_b |-> Added(m.only_in_b[pos])]
            \o [pos \in DOMAIN m.only_in_a |-> Removed(m.only_in_a[pos])]
            \o Concat([pos \in DOMAIN m.matched |-> Modified(m.matched[pos])])

(***************************************************************************)
(* Counter comparison                                                      *)
(***************************************************************************)
\* a record for every matched pair, changed or not
_compare_counters_Unguarded(self) ==
    LET la == self.config_a.counters
        lb == self.config_b.counters
        m == _match_objects(la, lb, "id", "name", "counter_no")
        Info(c) == [type |-> c.counter_type_name, format |-> c.format_string]
        Added(j) ==
            ObjectChange("Counter", lb[j].name, _get_object_id(lb[j], 0), "added",
                         NoChanges, NoChanges, Info(lb[j]))
        Removed(i) ==
            ObjectChange("Counter", la[i].name, _get_object_id(la[i], 0), "removed",
                         NoChanges, NoChanges, Info(la[i]))
        Modified(pair) ==
            LET c_a == la[pair[1]]
                c_b == lb[pair[2]]
                field_changes ==
                    _compare_simple_fields(c_a, c_b,
                        <<"name", "counter_type", "format_string">>,
                        [counter_type |-> "Type", format_string |-> "Format"])
            IN  <<ObjectChange("Counter", c_b.name, _get_object_id(c_b, 0),
                               "modified", field_changes, NoChanges, NoInfo)>>
    IN  [pos \in DOMAIN m.only_in_b |-> Added(m.only_in_b[pos])]
            \o [pos \in DOMAIN m.only_in_a |-> Removed(m.only_in_a[pos])]
            \o Concat([pos \in DOMAIN m.matched |-> Modified(m.matched[pos])])

_compare_counters(self) ==
    LET la == self.config_a.counters
        lb == self.config_b.counters
        m == _match_objects(la, lb, "id", "name", "counter_no")
        Info(c) == [type |-> c.counter_type_name, format |-> c.format_string]
        Added(j) ==
            ObjectChange("Counter", lb[j].name, _get_object_id(lb[j], 0), "added",
                         NoChanges, NoChanges, Info(lb[j]))
        Removed(i) ==
            ObjectChange("Counter", la[i].name, _get_object_id(la[i], 0), "removed",
                         NoChanges, NoChanges, Info(la[i]))
        Modified(pair) ==
            LET c_a == la[pair[1]]
                c_b == lb[pair[2]]
                field_changes ==
                    _compare_simple_fields(c_a, c_b,
                        <<"name", "counter_type", "format_string">>,
                        [counter_type |-> "Type", format_string |-> "Format"])
            IN  IF field_changes # <<>>
                THEN <<ObjectChange("Counter", c_b.name, _get_object_id(c_b, 0),
                                    "modified", field_changes, NoChanges, NoInfo)>>
                ELSE <<>>
    IN  [pos \in DOMAIN m.only_in_b |-> Added(m.only_in_b[pos])]
            \o [pos \in DOMAIN m.only_in_a |-> Removed(m.only_in_a[pos])]
            \o Concat([pos \in DOMAIN m.matched |-> Modified(m.matched[pos])])

(***************************************************************************)
(* DataType comparison                                                     *)
(***************************************************************************)
ColNameOf(c) == c.col_name

_compare_datatypes(self) ==
    LET la == self.config_a.data_types
        lb == self.config_b.data_types
        m == _match_objects(la, lb, "id", "name", "datatype_no")
        Info(dt) == [table |-> dt.table_name, column_count |-> Num(Len(dt.columns))]
        Added(j) ==
            ObjectChange("DataType", lb[j].name, _get_object_id(lb[j], 0), "added",
                         NoChanges, NoChanges, Info(lb[j]))
        Removed(i) ==
            ObjectChange("DataType", la[i].name, _get_object_id(la[i], 0), "removed",
                         NoChanges, NoChanges, Info(la[i]))
        Modified(pair) ==
            LET dt_a == la[pair[1]]
                dt_b == lb[pair[2]]
                simple ==
                    _compare_simple_fields(dt_a, dt_b, <<"name", "table_name", "type_group">>,
                                           [table_name |-> "Table", type_group |-> "Type Group"])
                cols_a == {ColNameOf(dt_a.columns[pos]) : pos \in DOMAIN dt_a.columns}
                cols_b == {ColNameOf(dt_b.columns[pos]) : pos \in DOMAIN dt_b.columns}
                field_changes ==
                    simple \o (IF cols_a # cols_b
                               THEN <<FieldChange("Columns", sorted(cols_a), sorted(cols_b),
                                                  "modified")>>
                               ELSE <<>>)
            IN  IF field_changes # <<>>
                THEN <<ObjectChange("DataType", dt_b.name, _get_object_id(dt_b, 0),
                                    "modified", field_changes, NoChanges, NoInfo)>>
                ELSE <<>>
    IN  [pos \in DOMAIN m.only_in_b |-> Added(m.only_in_b[pos])]
            \o [pos \in DOMAIN m.only_in_a |-> Removed(m.only_in_a[pos])]
            \o Concat([pos \in DOMAIN m.matched |-> Modified(m.matched[pos])])

(***************************************************************************)
(* Stamp comparison                                                        *)
(***************************************************************************)
_compare_stamps(self) ==
    LET la == self.config_a.stamps
        lb == self.config_b.stamps
        m == _match_objects(la, lb, "id", "name", "stamp_no")
        Added(j) ==
            ObjectChange("Stamp", lb[j].name, _get_object_id(lb[j], 0), "added",
                         NoChanges, NoChanges, [type |-> lb[j].stamp_type_name])
        Removed(i) ==
            ObjectChange("Stamp", la[i].name, _get_object_id(la[i], 0), "removed",
                         NoChanges, NoChanges, [type |-> la[i].stamp_type_name])
        Modified(pair) ==
            LET s_a == la[pair[1]]
                s_b == lb[pair[2]]
                field_changes ==
                    _compare_simple_fields(s_a, s_b, <<"name", "stamp_type", "filename">>,
                                           [stamp_type |-> "Type", filename |-> "Filename"])
            IN  IF field_changes # <<>>
                THEN <<ObjectChange("Stamp", s_b.name, _get_object_id(s_b, 0),
                                    "modified", field_changes, NoChanges, NoInfo)>>
                ELSE <<>>
    IN  [pos \in DOMAIN m.only_in_b |-> Added(m.only_in_b[pos])]
            \o [pos \in DOMAIN m.only_in_a |-> Removed(m.only_in_a[pos])]
            \o Concat([pos \in DOMAIN m.matched |-> Modified(m.matched[pos])])

(***************************************************************************)
(* Retention policy comparison                                             *)
(***************************************************************************)
CategoryNoOf(c) == c.category_no

_compare_retention_policies(self) ==
    LET la == self.config_a.retention_policies
        lb == self.config_b.retention_policies
        m == _match_objects(la, lb, "id", "name", "policy_no")
        Added(j) ==
            ObjectChange("RetentionPolicy", lb[j].name, _get_object_id(lb[j], 0), "added",
                         NoChanges, NoChanges, [months |-> lb[j].months])
        Removed(i) ==
            ObjectChange("RetentionPolicy", la[i].name, _get_object_id(la[i], 0), "removed",
                         NoChanges, NoChanges, [months |-> la[i].months])
        Modified(pair) ==
            LET p_a == la[pair[1]]
                p_b == lb[pair[2]]
                simple ==
                    _compare_simple_fields(p_a, p_b,
                        <<"name", "months", "starting", "purge", "delete_disk">>,
                        [months |-> "Retention (months)", starting |-> "Starting From",
                         purge |-> "Purge", delete_disk |-> "Delete from Disk"])
                cats_a == {CategoryNoOf(p_a.categories[pos]) : pos \in DOMAIN p_a.categories}
                cats_b == {CategoryNoOf(p_b.categories[pos]) : pos \in DOMAIN p_b.categories}
                field_changes ==
                    simple \o (IF cats_a # cats_b
                               THEN <<FieldChange("Assigned Categories",
                                                  Num(Cardinality(cats_a)),
                                                  Num(Cardinality(cats_b)), "modified")>>
                               ELSE <<>>)
            IN  IF field_changes # <<>>
                THEN <<ObjectChange("RetentionPolicy", p_b.name, _get_object_id(p_b, 0),
                                    "modified", field_changes, NoChanges, NoInfo)>>
                ELSE <<>>
    IN  [pos \in DOMAIN m.only_in_b |-> Added(m.only_in_b[pos])]
            \o [pos \in DOMAIN m.only_in_a |-> Removed(m.only_in_a[pos])]
            \o Concat([pos \in DOMAIN m.matched |-> Modified(m.matched[pos])])

(***************************************************************************)
(* Role assignment comparison                                              *)
(***************************************************************************)
\* the sub-object number as a fifth part of the key
assignment_key_WithSubObject(ra) ==
    <<ra.obj_type, ra.obj_no, ra.role_no, ra.user_no, ra.sub_obj_no>>

assignment_key(ra) == <<ra.obj_type, ra.obj_no, ra.role_no, ra.user_no>>

\* f"{ra.role_name or f'Role #{ra.role_no}'} -> {ra.user_name or f'User #{ra.user_no}'}"
AssignmentName(ra) ==
    Str(StrText(Or(ra.role_name, Str("Role #" \o StrText(ra.role_no))))
            \o " → "
            \o StrText(Or(ra.user_name, Str("User #" \o StrText(ra.user_no)))))

\* f"{ra.obj_type}:{ra.obj_no}:{ra.role_no}:{ra.user_no}"
AssignmentId(ra) ==
    Str(StrText(ra.obj_type) \o ":" \o StrText(ra.obj_no) \o ":"
            \o StrText(ra.role_no) \o ":" \o StrText(ra.user_no))

_compare_role_assignments(self) ==
    LET la == self.config_a.role_assignments
        lb == self.config_b.role_assignments
        keys_a == {assignment_key(la[pos]) : pos \in DOMAIN la}
        keys_b == {assignment_key(lb[pos]) : pos \in DOMAIN lb}
        added_keys == keys_b \ keys_a
        removed_keys == keys_a \ keys_b
        ra_map_b == DictByKey([pos \in DOMAIN lb |-> assignment_key(lb[pos])], 1, EmptyDict)
        ra_map_a == DictByKey([pos \in DOMAIN la |-> assignment_key(la[pos])], 1, EmptyDict)
        Added(key) ==
            LET ra == lb[ra_map_b[key]]
            IN  ObjectChange("RoleAssignment", AssignmentName(ra), AssignmentId(ra), "added",
                             NoChanges, NoChanges,
                             [obj_type |-> ra.obj_type, obj_no |-> ra.obj_no])
        Removed(key) ==
            LET ra == la[ra_map_a[key]]
            IN  ObjectChange("RoleAssignment", AssignmentName(ra), AssignmentId(ra), "removed",
                             NoChanges, NoChanges,
                             [obj_type |-> ra.obj_type, obj_no |-> ra.obj_no])
    IN  LET added_order == SetToSeq(added_keys)
            removed_order == SetToSeq(removed_keys)
        IN  [pos \in DOMAIN added_order |-> Added(added_order[pos])]
                \o [pos \in DOMAIN removed_order |-> Removed(removed_order[pos])]

(***************************************************************************)
(* differ/models.py: DiffResult                                            *)
(***************************************************************************)
DiffResult(file_a_name, file_b_name, changes) ==
    [file_a_name |-> file_a_name, file_b_name |-> file_b_name,
     changes |-> changes, _summary |-> None]

DiffSummary == [added |-> 0, removed |-> 0, modified |-> 0]

\* a loop that counts every change as added
SummaryStep_AllAdded(res, change) ==
    LET obj_type == change.object_type
        r == IF obj_type \in DOMAIN res THEN res ELSE DictPut(res, obj_type, DiffSummary)
    IN  [r EXCEPT ![obj_type].added = @ + 1]

\* one pass of the loop of _compute_summary
SummaryStep(res, change) ==
    LET obj_type == change.object_type
        r == IF obj_type \in DOMAIN res THEN res ELSE DictPut(res, obj_type, DiffSummary)
    IN  CASE change.change_type = "added" ->
                 [r EXCEPT ![obj_type].added = @ + 1]
          [] change.change_type = "removed" ->
                 [r EXCEPT ![obj_type].removed = @ + 1]
          [] change.change_type = "modified" ->
                 [r EXCEPT ![obj_type].modified = @ + 1]
          [] OTHER -> r

RECURSIVE SummaryLoop(_, _)
SummaryLoop(changes, res) ==
    IF changes = <<>> THEN res
    ELSE SummaryLoop(Tail(changes), SummaryStep(res, Head(changes)))

_compute_summary(dr) == SummaryLoop(dr.changes, EmptyDict)

\* the value the summary property returns; reading it fills the cache
summary(dr) == IF dr._summary = None THEN _compute_summary(dr) ELSE dr._summary[2]

\* the weight that counts the ObjectChange itself as 1 and, when it is
\* 'modified', adds the weights of its nested changes
RECURSIVE total_changes_CountingItself(_)
total_changes_CountingItself(c) ==
    LET count[k \in 0..Len(c.nested_changes)] ==
            IF k = 0 THEN 1
            ELSE count[k - 1] + total_changes_CountingItself(c.nested_changes[k])
    IN  IF c.change_type = "modified" THEN count[Len(c.nested_changes)] ELSE 1

\* ObjectChange.total_changes: count starts at len(field_changes); each
\* nested change adds 1 and, when it is 'modified', its own total_changes.
\* count[k] is count after k turns of the loop.
RECURSIVE total_changes(_)
total_changes(c) ==
    LET count[k \in 0..Len(c.nested_changes)] ==
            IF k = 0 THEN Len(c.field_changes)
            ELSE count[k - 1] + 1
                   + (IF c.nested_changes[k].change_type = "modified"
                      THEN total_changes(c.nested_changes[k]) ELSE 0)
    IN  count[Len(c.nested_changes)]

get_changes_by_type(dr, object_type) ==
    LET Test(c) == c.object_type = object_type IN SelectSeq(dr.changes, Test)

get_changes_by_change_type(dr, change_type) ==
    LET Test(c) == c.change_type = change_type IN SelectSeq(dr.changes, Test)

\* User ahead of Role
order_UserFirst ==
    <<"Category", "CaseDefinition", "Workflow", "User", "Role", "Group",
      "Folder", "EForm", "Query", "Dictionary", "TreeView", "Counter",
      "DataType", "Stamp", "RetentionPolicy", "RoleAssignment">>

order == <<"Category", "CaseDefinition", "Workflow", "Role", "User", "Group",
           "Folder", "EForm", "Query", "Dictionary", "TreeView", "Counter",
           "DataType", "Stamp", "RetentionPolicy", "RoleAssignment">>

\* object types outside order that a change list can hold, in ascending order
OtherTypes == <<"Field", "Keyword", "Task", "Transition">>

RECURSIVE FilterSeq(_, _)
FilterSeq(q, S) ==
    IF q = <<>> THEN <<>>
    ELSE (IF Head(q) \in S THEN <<Head(q)>> ELSE <<>>) \o FilterSeq(Tail(q), S)

Range(q) == {q[k] : k \in DOMAIN q}

\* the kinds of order only
object_types_with_changes_Known(dr) ==
    LET types_with_changes == {dr.changes[k].object_type : k \in DOMAIN dr.changes}
    IN  FilterSeq(order, types_with_changes)

object_types_with_changes(dr) ==
    LET types_with_changes == {dr.changes[k].object_type : k \in DOMAIN dr.changes}
    IN  FilterSeq(order, types_with_changes)
            \o FilterSeq(OtherTypes, types_with_changes \ Range(order))

(***************************************************************************)
(* DiffComparator.compare                                                  *)
(***************************************************************************)
compare(a, b, file_a_name, file_b_name) ==
    LET self == [config_a |-> a, config_b |-> b]
        changes ==
            _compare_categories(self)
                \o _compare_case_definitions(self)
                \o _compare_workflows(self)
                \o _compare_roles(self)
                \o _compare_users(self)
                \o _compare_folders(self)
                \o _compare_eforms(self)
                \o _compare_queries(self)
                \o _compare_dictionaries(self)
                \o _compare_treeviews(self)
                \o _compare_counters(self)
                \o _compare_datatypes(self)
                \o _compare_stamps(self)
                \o _compare_retention_policies(self)
                \o _compare_role_assignments(self)
    IN  DiffResult(file_a_name, file_b_name, changes)

(***************************************************************************)
(* parser/models.py: the entities of a Configuration, with the attributes  *)
(* the differ reads                                                        *)
(***************************************************************************)
\* get_lookup_name(FIELD_TYPES, type_no), for the types of the model
FieldTypeName(type_no) == IF type_no = 1 THEN "String" ELSE "Integer"

Field(gid, field_no, caption, type_no, counter_no) ==
    [id |-> Str(gid), field_no |-> Num(field_no), caption |-> Str(caption),
     type_no |-> Num(type_no),
     type_name |-> Str(FieldTypeName(type_no)),
     length |-> Num(0), index_type |-> Num(0), is_mandatory |-> Bool(FALSE),
     counter_no |-> counter_no, dictionary_no |-> None]

Category(gid, category_no, name, description, fields) ==
    [id |-> Str(gid), category_no |-> Num(category_no), name |-> Str(name),
     title |-> Str(""), description |-> description, folder_no |-> None,
     fulltext_mode |-> Num(0), checkin_mode |-> Num(0), empty_doc_mode |-> Num(0),
     fields |-> fields]

CaseDefinition(gid, case_def_no, name, title, folder_no, fields) ==
    [id |-> Str(gid), case_def_no |-> Num(case_def_no), name |-> Str(name),
     title |-> Str(title), description |-> Str(""), folder_no |-> folder_no,
     checkin_mode |-> Num(0), auto_append_mode |-> Num(0), datatype_no |-> None,
     fields |-> fields]

WorkflowTransition(name, action_text, task_to_no, condition) ==
    [name |-> Str(name), action_text |-> Str(action_text),
     task_to_no |-> Num(task_to_no), condition |-> condition]

WorkflowTask(gid, task_no, name, duration, transitions) ==
    [id |-> Str(gid), task_no |-> Num(task_no), name |-> Str(name),
     type_no |-> Num(3), type_name |-> Str("Manual Task"), process_no |-> Num(1),
     duration |-> Num(duration), seq_pos |-> Num(0),
     disable_delegation |-> Bool(FALSE), action_type |-> Str(""),
     init_script |-> Str(""), transitions |-> transitions]

WorkflowProcess(gid, process_no, name, category_no, tasks) ==
    [id |-> Str(gid), process_no |-> Num(process_no), name |-> Str(name),
     description |-> Str(""), enabled |-> Bool(TRUE), category_no |-> category_no,
     folder_no |-> None, duration |-> Num(0), del_inst_days |-> Num(0),
     allow_manual |-> Bool(FALSE), attach_history |-> Bool(FALSE),
     notify_on_error |-> Str(""), tasks |-> tasks]

User(gid, user_no, user_name, display_name, user_type, members) ==
    [id |-> Str(gid), user_no |-> Num(user_no), user_name |-> Str(user_name),
     display_name |-> Str(display_name), user_type |-> Num(user_type),
     email |-> Str(""), domain |-> Str(""), description |-> Str(""),
     members |-> members]

\* decode_flags(ROLE_PERMISSION, permission), for the two masks of the model
PermissionNames(permission) == IF permission = 0 THEN <<>> ELSE <<Str("Operator")>>

Role(gid, role_no, name, description, permission, users) ==
    [id |-> Str(gid), role_no |-> Num(role_no), name |-> Str(name),
     description |-> description, permission |-> Num(permission),
     permission_names |-> PermissionNames(permission), is_deny |-> Bool(FALSE),
     users |-> users]

Folder(gid, folder_no, name, parent_no) ==
    [id |-> Str(gid), folder_no |-> Num(folder_no), name |-> Str(name),
     parent_no |-> parent_no, folder_type |-> Num(0), folder_type_name |-> Str("Unknown (0)"),
     children |-> <<>>]

EFormComponent(children) == [children |-> children]

EForm(gid, form_no, name, folder_no, components) ==
    [id |-> Str(gid), form_no |-> Num(form_no), name |-> Str(name),
     version |-> Num(1), folder_no |-> folder_no, components |-> components]

Query(gid, query_no, name, description, category_no) ==
    [id |-> Str(gid), query_no |-> Num(query_no), name |-> Str(name),
     description |-> description, category_no |-> category_no, folder_no |-> None]

Keyword(value) == [value |-> Str(value)]

KeywordDictionary(gid, dictionary_no, name, folder_no, keywords) ==
    [id |-> Str(gid), dictionary_no |-> Num(dictionary_no), name |-> Str(name),
     description |-> Str(""), folder_no |-> folder_no, keywords |-> keywords]

TreeViewLevel(level_no) == [level_no |-> Num(level_no)]

TreeView(gid, treeview_no, name, category_no, levels) ==
    [id |-> Str(gid), treeview_no |-> Num(treeview_no), name |-> Str(name),
     category_no |-> category_no, folder_no |-> None, levels |-> levels]

Counter(gid, counter_no, name, format_string, folder_no) ==
    [id |-> Str(gid), counter_no |-> Num(counter_no), name |-> Str(name),
     counter_type |-> Num(1), counter_type_name |-> Str("Integer"),
     format_string |-> format_string, folder_no |-> folder_no]

DataTypeColumn(col_name) == [col_name |-> Str(col_name)]

DataType(gid, datatype_no, name, table_name, columns) ==
    [id |-> Str(gid), datatype_no |-> Num(datatype_no), name |-> Str(name),
     table_name |-> Str(table_name), type_group |-> Num(0), dictionary_no |-> None,
     columns |-> columns]

Stamp(gid, stamp_no, name, filename, folder_no) ==
    [id |-> Str(gid), stamp_no |-> Num(stamp_no), name |-> Str(name),
     stamp_type |-> Num(0), stamp_type_name |-> Str("PDF"),
     filename |-> filename, folder_no |-> folder_no]

RetentionPolicyCategory(category_no) == [category_no |-> Num(category_no)]

RetentionPolicy(gid, policy_no, name, months, categories) ==
    [id |-> Str(gid), policy_no |-> Num(policy_no), name |-> Str(name),
     months |-> Num(months), starting |-> Str(""), purge |-> Bool(FALSE),
     delete_disk |-> Bool(FALSE), categories |-> categories]

RoleAssignment(role_no, obj_type, obj_no, user_no, sub_obj_no, role_name) ==
    [role_no |-> Num(role_no), obj_type |-> Num(obj_type), obj_no |-> Num(obj_no),
     sub_obj_no |-> Num(sub_obj_no), user_no |-> Num(user_no),
     user_name |-> Str(""), role_name |-> Str(role_name),
     condition |-> Str(""), stop_inheritance |-> Bool(FALSE)]

Configuration ==
    [categories |-> <<>>, case_definitions |-> <<>>, workflows |-> <<>>,
     folders |-> <<>>, users |-> <<>>, roles |-> <<>>, role_assignments |-> <<>>,
     eforms |-> <<>>, queries |-> <<>>, keyword_dictionaries |-> <<>>,
     tree_views |-> <<>>, counters |-> <<>>, data_types |-> <<>>, stamps |-> <<>>,
     retention_policies |-> <<>>]

EmptyConfig == Configuration

(***************************************************************************)
(* utils/helpers.py: build_tree_structure, as _parse_folders calls it      *)
(***************************************************************************)
\* item_map: folder_no -> the position of the last item with that number
RECURSIVE item_map(_, _, _)
item_map(items, k, acc) ==
    IF k > Len(items) THEN acc
    ELSE item_map(items, k + 1, DictPut(acc, items[k].folder_no, k))

\* the positions of the roots
IsRoot(items, k) ==
    LET parent_id == items[k].parent_no
    IN  parent_id = None \/ parent_id \notin DOMAIN item_map(items, 1, EmptyDict)

\* the item at position p with the children appended to it, in list order;
\* an item that is its own ancestor hangs under no root, so depth only bounds
\* the recursion
RECURSIVE TreeAt(_, _, _)
TreeAt(items, p, depth) ==
    LET map == item_map(items, 1, EmptyDict)
        IsChild(k) == ~IsRoot(items, k) /\ map[items[k].parent_no] = p
        Sub(k) == IF IsChild(k) /\ depth > 0 THEN <<TreeAt(items, k, depth - 1)>> ELSE <<>>
        Positions == [k \in 1..Len(items) |-> k]
    IN  [items[p] EXCEPT !.children = Concat([pos \in DOMAIN Positions |-> Sub(Positions[pos])])]

build_tree_structure(items) ==
    LET Root(k) == IF IsRoot(items, k) THEN <<TreeAt(items, k, Len(items))>> ELSE <<>>
        Positions == [k \in 1..Len(items) |-> k]
    IN  Concat([pos \in DOMAIN Positions |-> Root(Positions[pos])])

(***************************************************************************)
(* The interpreter and the configurations compare is run on                *)
(***************************************************************************)
\* two interpreter processes: the base address of the objects and the seed
\* of the str hashes
Procs == <<[heap |-> 1000, seed |-> 0], [heap |-> 2000, seed |-> 1]>>

\* no DiffResult yet
NoResult == None

\* no call of compare on a shared comparator, no upload job
NoCalls == None
NoUpload == None

\* no matcher output yet
NoMatchOut == [matched |-> <<>>, only_in_a |-> <<>>, only_in_b |-> <<>>]

\* at most MaxTop entities in a top-level list
MaxTop == 2

\* The pools hold entities that collide on one key and differ on another, and
\* str attributes that hold "" on one entity and None on another (an entity
\* built through its dataclass, which does not check the annotation).
FieldF1 == Field("F1", 1, "Amount", 1, None)
FieldF1b == Field("F1", 1, "Total", 2, None)
FieldNoId == Field("", 2, "Date", 1, None)
FieldCounter == Field("", 0, "Date", 1, Num(7))

CategoryPool ==
    {Category("G1", 1, "X", Str(""), <<>>),
     Category("G1", 1, "X", None, <<FieldF1, FieldNoId>>),
     Category("", 1, "Y", Str("d"), <<FieldNoId, FieldCounter>>),
     Category("", 0, "X", Str(""), <<FieldF1b>>),
     Category("G1", 1, "X", None, <<FieldF1>>),
     Category("G1", 1, "X", None, <<FieldF1, FieldF1>>),
     Category("G1", 1, "X", None, <<FieldF1, FieldF1, FieldNoId>>)}

CaseDefinitionPool ==
    {CaseDefinition("D1", 1, "Case", "Case File", None, <<>>),
     CaseDefinition("D1", 1, "Case", "", Num(5), <<FieldNoId>>),
     CaseDefinition("", 1, "Other", "", None, <<FieldNoId, FieldF1>>)}

TransGo == WorkflowTransition("Go", "Approve", 2, Str(""))
TransGoNone == WorkflowTransition("Go", "Approve", 2, None)
TransGoIf == WorkflowTransition("Go", "Approve", 2, Str("x"))
TransBare == WorkflowTransition("", "", 3, Str(""))
TransNamed == WorkflowTransition("Back", "", 1, Str(""))

TaskStart == WorkflowTask("T1", 1, "Start", 0, <<TransGo>>)
TaskStartNone == WorkflowTask("T1", 1, "Start", 0, <<TransGoNone>>)
TaskStartLate == WorkflowTask("T1", 1, "Start", 5, <<TransGoIf, TransBare, TransNamed>>)
TaskReview == WorkflowTask("", 2, "Review", 0, <<>>)

WorkflowPool ==
    {WorkflowProcess("W1", 1, "Flow", Num(1), <<TaskStart>>),
     WorkflowProcess("W1", 1, "Flow", Num(1), <<TaskStartNone>>),
     WorkflowProcess("W1", 1, "Flow", None, <<TaskStartLate, TaskReview>>),
     WorkflowProcess("", 1, "Other", None, <<TaskReview>>),
     WorkflowProcess("W1", 1, "Flow", Num(1),
         <<WorkflowTask("T1", 1, "Start", 0,
                        <<WorkflowTransition("Approve", "", 2, Str("x"))>>)>>),
     WorkflowProcess("W1", 1, "Flow", Num(1),
         <<WorkflowTask("T1", 1, "Start", 0,
                        <<WorkflowTransition("Back", "Reject", 1, Str("")),
                          WorkflowTransition("Again", "Reject", 1, Str("x"))>>)>>)}

UserAlice == User("U1", 1, "alice", "Alice", 1, <<>>)
UserBob == User("", 2, "bob", "", 1, <<>>)

UserPool ==
    {UserAlice, UserBob,
     User("U3", 3, "carol", "Team", 2, <<UserAlice>>),
     User("U3", 3, "carol", "Team", 2, <<UserAlice, UserBob>>)}

RolePool ==
    {Role("R1", 1, "Admin", Str(""), 1, <<UserAlice>>),
     Role("R1", 1, "Admin", None, 0, <<UserAlice, UserBob>>),
     Role("", 1, "Guest", Str(""), 0, <<>>),
     Role("R1", 1, "Admin", None, 0, <<UserBob, UserAlice, UserBob>>)}

\* the Folder elements of a file, before build_tree_structure
FolderPool ==
    {Folder("", 1, "Root", None),
     Folder("", 2, "Sub", Num(1)),
     Folder("F2", 2, "Sub", None),
     Folder("", 1, "Docs", Num(1)),
     Folder("", 2, "Sub", None)}

EFormPool ==
    {EForm("E1", 1, "Form", None, <<>>),
     EForm("E1", 1, "Form", Num(2), <<EFormComponent(<<EFormComponent(<<>>)>>)>>),
     EForm("", 1, "Other", None, <<EFormComponent(<<>>)>>)}

QueryPool ==
    {Query("Q1", 1, "Find", Str(""), None),
     Query("Q1", 1, "Find", None, Num(1)),
     Query("", 1, "Search", Str("d"), None),
     Query("", 1, "Search", Str("d"), Num(7))}

KeywordDictionaryPool ==
    {KeywordDictionary("K1", 1, "Colors", None, <<Keyword("red")>>),
     KeywordDictionary("K1", 1, "Colors", Num(3), <<Keyword("blue"), Keyword("green")>>),
     KeywordDictionary("", 1, "Sizes", None, <<>>),
     KeywordDictionary("K1", 1, "Colors", None,
                       <<Keyword("red"), Keyword("blue"), Keyword("red")>>)}

TreeViewPool ==
    {TreeView("V1", 1, "Tree", None, <<>>),
     TreeView("V1", 1, "Tree", Num(1), <<TreeViewLevel(1)>>),
     TreeView("", 1, "Other", None, <<>>)}

CounterPool ==
    {Counter("N1", 1, "Invoice", Str(""), None),
     Counter("N1", 1, "Invoice", None, Num(2)),
     Counter("", 1, "Order", Str("#"), None)}

DataTypePool ==
    {DataType("A1", 1, "Address", "addr", <<DataTypeColumn("city")>>),
     DataType("A1", 1, "Address", "", <<DataTypeColumn("city"), DataTypeColumn("zip")>>),
     DataType("", 1, "Other", "addr", <<>>)}

StampPool ==
    {Stamp("S1", 1, "Paid", Str("paid.pdf"), None),
     Stamp("S1", 1, "Paid", Str(""), Num(1)),
     Stamp("", 1, "Draft", None, None)}

RetentionPolicyPool ==
    {RetentionPolicy("P1", 1, "Keep", 12, <<RetentionPolicyCategory(1)>>),
     RetentionPolicy("P1", 1, "Keep", 12, <<RetentionPolicyCategory(2)>>),
     RetentionPolicy("", 1, "Short", 6,
                     <<RetentionPolicyCategory(1), RetentionPolicyCategory(2)>>)}

RoleAssignmentPool ==
    {RoleAssignment(1, 3, 1, 1, 0, "Admin"),
     RoleAssignment(1, 3, 1, 1, 5, ""),
     RoleAssignment(2, 3, 1, 1, 0, ""),
     RoleAssignment(1, 3, 2, 1, 0, ""),
     RoleAssignment(1, 3, 1, 1, 5, "Admin")}

\* the lists of at most n elements of S
SeqsUpTo(S, n) == UNION {[1..k -> S] : k \in 0..n}

\* the entities met only in files that hold one entity of their kind
ComparedAlone ==
    [categories |->
         {Category("G1", 1, "X", None, <<FieldF1>>),
          Category("G1", 1, "X", None, <<FieldF1, FieldF1>>),
          Category("G1", 1, "X", None, <<FieldF1, FieldF1, FieldNoId>>)},
     workflows |->
         {WorkflowProcess("W1", 1, "Flow", Num(1),
              <<WorkflowTask("T1", 1, "Start", 0,
                             <<WorkflowTransition("Approve", "", 2, Str("x"))>>)>>),
          WorkflowProcess("W1", 1, "Flow", Num(1),
              <<WorkflowTask("T1", 1, "Start", 0,
                             <<WorkflowTransition("Back", "Reject", 1, Str("")),
                               WorkflowTransition("Again", "Reject", 1, Str("x"))>>)>>)},
     roles |-> {Role("R1", 1, "Admin", None, 0, <<UserBob, UserAlice, UserBob>>)},
     folders |-> {Folder("", 2, "Sub", None)},
     keyword_dictionaries |->
         {KeywordDictionary("K1", 1, "Colors", None,
                            <<Keyword("red"), Keyword("blue"), Keyword("red")>>)},
     queries |-> {Query("", 1, "Search", Str("d"), Num(7))},
     role_assignments |-> {RoleAssignment(1, 3, 1, 1, 5, "Admin")}]

\* the lists of at most MaxTop entities of a pool, and its lists of one entity
Lists(pool, alone) == SeqsUpTo(pool \ alone, MaxTop) \cup SeqsUpTo(pool, 1)

\* the lists a parse leaves in each attribute of a Configuration
ListsOf(attr) ==
    CASE attr = "categories" -> Lists(CategoryPool, ComparedAlone.categories)
      [] attr = "case_definitions" -> SeqsUpTo(CaseDefinitionPool, MaxTop)
      [] attr = "workflows" -> Lists(WorkflowPool, ComparedAlone.workflows)
      [] attr = "roles" -> Lists(RolePool, ComparedAlone.roles)
      [] attr = "users" -> SeqsUpTo(UserPool, MaxTop)
      [] attr = "folders" ->
             {build_tree_structure(flat) : flat \in Lists(FolderPool, ComparedAlone.folders)}
      [] attr = "eforms" -> SeqsUpTo(EFormPool, MaxTop)
      [] attr = "queries" -> Lists(QueryPool, ComparedAlone.queries)
      [] attr = "keyword_dictionaries" ->
             Lists(KeywordDictionaryPool, ComparedAlone.keyword_dictionaries)
      [] attr = "tree_views" -> SeqsUpTo(TreeViewPool, MaxTop)
      [] attr = "counters" -> SeqsUpTo(CounterPool, MaxTop)
      [] attr = "data_types" -> SeqsUpTo(DataTypePool, MaxTop)
      [] attr = "stamps" -> SeqsUpTo(StampPool, MaxTop)
      [] attr = "retention_policies" -> SeqsUpTo(RetentionPolicyPool, MaxTop)
      [] OTHER -> Lists(RoleAssignmentPool, ComparedAlone.role_assignments)

\* configurations that hold entities of one kind
OneKind(attr) == {[Configuration EXCEPT ![attr] = list] : list \in ListsOf(attr)}

\* configurations that hold entities of several kinds
Mixed ==
    {[Configuration EXCEPT !.categories = c, !.users = u, !.role_assignments = r] :
        c \in SeqsUpTo({Category("G1", 1, "X", Str(""), <<>>),
                        Category("G1", 1, "Z", Str(""), <<>>)}, 1),
        u \in SeqsUpTo({UserAlice, UserBob}, 2),
        r \in SeqsUpTo({RoleAssignment(1, 3, 1, 1, 0, "Admin")}, 1)}

\* the interpreters a comparison is run in
ProcSet == {Procs[k] : k \in DOMAIN Procs}

\* two configurations of one kind of entity
InitOneKind ==
    \E attr \in DOMAIN Configuration : \E a \in OneKind(attr), b \in OneKind(attr) :
        /\ config_a = a
        /\ config_b = b
        /\ aliased = FALSE
        /\ proc \in ProcSet

\* two configurations of several kinds of entity
InitMixed ==
    \E a \in Mixed, b \in Mixed :
        /\ config_a = a
        /\ config_b = b
        /\ aliased = FALSE
        /\ proc \in ProcSet

\* the two arguments of compare are the same Configuration object
InitSame ==
    \E a \in Mixed \cup UNION {OneKind(attr) : attr \in DOMAIN Configuration} :
        /\ config_a = a
        /\ config_b = a
        /\ aliased = TRUE
        /\ proc \in ProcSet

Init ==
    /\ pc = "start"
    /\ InitOneKind \/ InitMixed \/ InitSame
    /\ result = NoResult
    /\ shown = <<>>
    /\ result_2 = NoResult
    /\ totals = <<>>
    /\ shown_types = <<>>
    /\ calls = NoCalls
    /\ upload = NoUpload
    /\ list_a = <<>>
    /\ list_b = <<>>
    /\ match_out = NoMatchOut

\* DiffComparator().compare(config_a, config_b, file_a_name, file_b_name), on
\* the snapshots as first parsed and on the snapshots parsed once more
Compare ==
    /\ pc \in {"start", "parsed"}
    /\ \E diff_result \in {compare(config_a, config_b, "a.xml", "b.xml")} :
          /\ result' = (IF pc = "start" THEN diff_result ELSE result)
          /\ result_2' = (IF pc = "start" THEN result_2 ELSE diff_result)
    /\ pc' = (IF pc = "start" THEN "done" ELSE "rerun")
    /\ UNCHANGED <<calls, upload, list_a, list_b, match_out, config_a, config_b, aliased, proc, shown, totals,
                   shown_types>>

\* a read of result.summary
\* reading summary also empties the changes list
ReadSummary_Consuming ==
    /\ pc \in {"done", "read", "edited"}
    /\ result' = [result EXCEPT !._summary = Dict(summary(result)), !.changes = <<>>]
    /\ pc' = (IF pc = "edited" THEN "reread" ELSE "read")
    /\ UNCHANGED <<calls, upload, list_a, list_b, match_out, config_a, config_b, aliased, proc, shown, result_2, totals, shown_types>>

ReadSummary ==
    /\ pc \in {"done", "read", "edited"}
    /\ result' = [result EXCEPT !._summary = Dict(summary(result))]
    /\ pc' = (IF pc = "edited" THEN "reread" ELSE "read")
    /\ UNCHANGED <<calls, upload, list_a, list_b, match_out, config_a, config_b, aliased, proc, shown, result_2, totals, shown_types>>

\* the two files are parsed once more (a later request, or the program
\* started again): the same snapshots, held by fresh objects of an interpreter
\* whose addresses and hash seed need not be those of the first run
Reparse ==
    /\ pc = "done"
    /\ proc' \in ProcSet
    /\ pc' = "parsed"
    /\ UNCHANGED <<calls, upload, list_a, list_b, match_out, config_a, config_b, aliased, result, shown,
                   result_2, shown_types, totals>>

\* [change.total_changes for change in result.changes]
ReadTotals ==
    /\ pc = "done"
    /\ totals' = [k \in DOMAIN result.changes |-> total_changes(result.changes[k])]
    /\ pc' = "totalled"
    /\ UNCHANGED <<calls, upload, list_a, list_b, match_out, config_a, config_b, aliased, proc, result, shown,
                   result_2, shown_types>>

\* for t in result.object_types_with_changes:
\*     for change in result.get_changes_by_type(t): show change
RECURSIVE ShowTypes(_, _)
ShowTypes(dr, types) ==
    IF types = <<>> THEN <<>>
    ELSE get_changes_by_type(dr, Head(types)) \o ShowTypes(dr, Tail(types))

ShowByType ==
    /\ pc = "done"
    /\ shown_types' = object_types_with_changes(result)
    /\ shown' = ShowTypes(result, object_types_with_changes(result))
    /\ pc' = "shown"
    /\ UNCHANGED <<calls, upload, list_a, list_b, match_out, config_a, config_b, aliased, proc, result,
                   result_2, totals>>

Next == Compare \/ ReadSummary \/ Reparse \/ ReadTotals \/ ShowByType

Spec == Init /\ [][Next]_vars

(***************************************************************************)
(* The matcher alone, on every pair of bounded lists of one entity kind    *)
(***************************************************************************)
MaxLenA == 2
MaxLenB == 2

KeyIds == {"", "G1"}
KeyNums == {0, 1}
KeyNames == {"", "X"}

Entity(gid, num, name) == [id |-> Str(gid), category_no |-> Num(num), name |-> Str(name)]
Entities == {Entity(gid, num, name) : gid \in KeyIds, num \in KeyNums, name \in KeyNames}

InitMatch ==
    /\ pc = "start"
    /\ list_a \in SeqsUpTo(Entities, MaxLenA)
    /\ list_b \in SeqsUpTo(Entities, MaxLenB)
    /\ match_out = NoMatchOut
    /\ config_a = EmptyConfig
    /\ config_b = EmptyConfig
    /\ aliased = FALSE
    /\ proc = Procs[1]
    /\ result = NoResult
    /\ shown = <<>>
    /\ result_2 = NoResult
    /\ totals = <<>>
    /\ shown_types = <<>>
    /\ calls = NoCalls
    /\ upload = NoUpload

RunMatch ==
    /\ pc = "start"
    /\ match_out' = _match_objects(list_a, list_b, "id", "name", "category_no")
    /\ pc' = "matched"
    /\ UNCHANGED <<calls, upload, list_a, list_b, config_a, config_b, aliased, proc, result, shown, result_2, totals, shown_types>>

NextMatch == RunMatch

SpecMatch == InitMatch /\ [][NextMatch]_vars

(***************************************************************************)
(* The accessors of a DiffResult, on every bounded list of changes         *)
(***************************************************************************)
\* at most MaxChanges records in changes
MaxChanges == 3

\* records of four kinds of order and of two kinds outside it; a DiffResult is
\* a dataclass, its changes can be any list of ObjectChange
ChangeTypes == {"Category", "Workflow", "Role", "User", "Task", "Field"}

ChangePool ==
    {ObjectChange(object_type, Str("X"), Str("1"), change_type, NoChanges, NoChanges, NoInfo) :
        object_type \in ChangeTypes, change_type \in {"added", "modified"}}

InitResult ==
    /\ pc = "done"
    /\ result \in {DiffResult("a.xml", "b.xml", changes) :
                      changes \in SeqsUpTo(ChangePool, MaxChanges)}
    /\ shown = <<>>
    /\ result_2 = NoResult
    /\ totals = <<>>
    /\ shown_types = <<>>
    /\ calls = NoCalls
    /\ upload = NoUpload
    /\ config_a = EmptyConfig
    /\ config_b = EmptyConfig
    /\ aliased = FALSE
    /\ proc = Procs[1]
    /\ list_a = <<>>
    /\ list_b = <<>>
    /\ match_out = NoMatchOut

\* the records a caller appends to result.changes
EditPool ==
    {ObjectChange("Category", Str("X"), Str("1"), "added", NoChanges, NoChanges, NoInfo),
     ObjectChange("Role", Str("X"), Str("1"), "modified", NoChanges, NoChanges, NoInfo)}

\* result.changes.append(change), or result.changes.pop(): changes is a plain
\* list attribute of the dataclass
EditChanges ==
    /\ pc \in {"done", "read"}
    /\ \/ /\ Len(result.changes) < MaxChanges
          /\ \E change \in EditPool :
                result' = [result EXCEPT !.changes = Append(@, change)]
       \/ /\ result.changes # <<>>
          /\ result' = [result EXCEPT !.changes = SubSeq(@, 1, Len(@) - 1)]
    /\ pc' = "edited"
    /\ UNCHANGED <<calls, upload, list_a, list_b, match_out, config_a, config_b, aliased, proc, shown,
                   result_2, totals, shown_types>>

NextResult == ShowByType \/ ReadSummary \/ EditChanges

SpecResult == InitResult /\ [][NextResult]_vars

(***************************************************************************)
(* Two threads calling compare on one DiffComparator                       *)
(***************************************************************************)
Threads == {1, 2}

\* the _compare_ methods in the order compare calls them
Comparators ==
    <<"categories", "case_definitions", "workflows", "roles", "users", "folders",
      "eforms", "queries", "dictionaries", "treeviews", "counters", "datatypes",
      "stamps", "retention_policies", "role_assignments">>

\* changes.extend(self._compare_X()): the method reads the attributes of self
CallComparator(name, self) ==
    CASE name = "categories" -> _compare_categories(self)
      [] name = "case_definitions" -> _compare_case_definitions(self)
      [] name = "workflows" -> _compare_workflows(self)
      [] name = "roles" -> _compare_roles(self)
      [] name = "users" -> _compare_users(self)
      [] name = "folders" -> _compare_folders(self)
      [] name = "eforms" -> _compare_eforms(self)
      [] name = "queries" -> _compare_queries(self)
      [] name = "dictionaries" -> _compare_dictionaries(self)
      [] name = "treeviews" -> _compare_treeviews(self)
      [] name = "counters" -> _compare_counters(self)
      [] name = "datatypes" -> _compare_datatypes(self)
      [] name = "stamps" -> _compare_stamps(self)
      [] name = "retention_policies" -> _compare_retention_policies(self)
      [] OTHER -> _compare_role_assignments(self)

\* the snapshots the two calls are given
SharedConfigs ==
    {Configuration,
     [Configuration EXCEPT !.categories = <<Category("G1", 1, "X", Str(""), <<>>)>>],
     [Configuration EXCEPT !.users = <<UserAlice>>]}

\* DiffComparator(): both attributes None; two calls about to start with
\* different pairs of snapshots
InitShared ==
    /\ \E a1 \in SharedConfigs, b1 \in SharedConfigs, a2 \in SharedConfigs, b2 \in SharedConfigs :
          /\ <<a1, b1>> # <<a2, b2>>
          /\ calls = [self |-> [config_a |-> None, config_b |-> None],
                      args |-> <<[config_a |-> a1, config_b |-> b1],
                                 [config_a |-> a2, config_b |-> b2]>>,
                      at |-> <<"set_a", "set_a">>,
                      next |-> <<1, 1>>,
                      changes |-> <<<<>>, <<>>>>,
                      returned |-> <<NoResult, NoResult>>]
    /\ pc = "start"
    /\ config_a = EmptyConfig
    /\ config_b = EmptyConfig
    /\ aliased = FALSE
    /\ proc = Procs[1]
    /\ result = NoResult
    /\ shown = <<>>
    /\ result_2 = NoResult
    /\ totals = <<>>
    /\ shown_types = <<>>
    /\ upload = NoUpload
    /\ list_a = <<>>
    /\ list_b = <<>>
    /\ match_out = NoMatchOut

\* self.config_a = config_a
SetConfigA(t) ==
    /\ calls.at[t] = "set_a"
    /\ calls' = [calls EXCEPT !.self.config_a = calls.args[t].config_a,
                              !.at[t] = "set_b"]
    /\ UNCHANGED <<diff_vars, upload>>

\* self.config_b = config_b; changes = []
SetConfigB(t) ==
    /\ calls.at[t] = "set_b"
    /\ calls' = [calls EXCEPT !.self.config_b = calls.args[t].config_b,
                              !.changes[t] = <<>>,
                              !.at[t] = "extend"]
    /\ UNCHANGED <<diff_vars, upload>>

\* one changes.extend(self._compare_X()) of the fifteen
RunComparator(t) ==
    /\ calls.at[t] = "extend"
    /\ calls' = [calls EXCEPT
                    !.changes[t] = @ \o CallComparator(Comparators[calls.next[t]], calls.self),
                    !.next[t] = @ + 1,
                    !.at[t] = IF calls.next[t] = Len(Comparators) THEN "return" ELSE "extend"]
    /\ UNCHANGED <<diff_vars, upload>>

\* return DiffResult(file_a_name, file_b_name, changes)
Return(t) ==
    /\ calls.at[t] = "return"
    /\ calls' = [calls EXCEPT !.returned[t] = DiffResult("a.xml", "b.xml", calls.changes[t]),
                              !.at[t] = "returned"]
    /\ UNCHANGED <<diff_vars, upload>>

NextShared ==
    \E t \in Threads : SetConfigA(t) \/ SetConfigB(t) \/ RunComparator(t) \/ Return(t)

SpecShared == InitShared /\ [][NextShared]_vars

(***************************************************************************)
(* web.py and progress_tracker.py: an upload job, its progress tracker and *)
(* the response stream of /ai-progress                                     *)
(***************************************************************************)
\* the most calls of progress_callback one generation makes
MaxProgress == 2

\* what a call that can raise does
Outcomes == {"ok", "raise"}

\* the dict update puts on the queue
ProgressMessage(completed) == [completed |-> Num(completed), done |-> FALSE]

\* the dict mark_done puts on the queue; update.get('completed') is None
DoneMessage == [completed |-> None, done |-> TRUE]

\* ProgressTracker.create_tracker
create_tracker(u) == [u EXCEPT !.present = TRUE, !.done = FALSE, !.queue = <<>>]

\* ProgressTracker.update
update(u, completed) ==
    IF u.present THEN [u EXCEPT !.queue = Append(@, ProgressMessage(completed))] ELSE u

\* ProgressTracker.mark_done
mark_done(u) ==
    IF u.present THEN [u EXCEPT !.done = TRUE, !.queue = Append(@, DoneMessage)] ELSE u

\* the page, or another client, is about to upload a file: with_ai is the
\* checkbox, ai_configured the AI_CONFIGURED of the server and form_tracker
\* whether the form carries a tracker_id
InitUpload ==
    /\ \E with_ai \in BOOLEAN, ai_configured \in BOOLEAN, form_tracker \in BOOLEAN :
          upload = [with_ai |-> with_ai, ai_configured |-> ai_configured,
                    form_tracker |-> form_tracker,
                    client |-> "new",
                    present |-> FALSE, done |-> FALSE, queue |-> <<>>,
                    job_at |-> "none", status |-> "none", completed |-> 0,
                    stream_at |-> "idle", received |-> <<>>, ended_by |-> "none"]
    /\ calls = NoCalls
    /\ pc = "start"
    /\ config_a = EmptyConfig
    /\ config_b = EmptyConfig
    /\ aliased = FALSE
    /\ proc = Procs[1]
    /\ result = NoResult
    /\ shown = <<>>
    /\ result_2 = NoResult
    /\ totals = <<>>
    /\ shown_types = <<>>
    /\ list_a = <<>>
    /\ list_b = <<>>
    /\ match_out = NoMatchOut

\* POST /create-tracker/<tracker_id>, which the page sends before the form
CreateTrackerRoute ==
    /\ upload.client = "new"
    /\ upload.form_tracker
    /\ upload' = [create_tracker(upload) EXCEPT !.client = "tracked"]
    /\ UNCHANGED <<diff_vars, calls>>

\* upload(): the tracker is created here when the form names none; the job is
\* created and its thread started
Upload ==
    /\ \/ upload.client = "new" /\ ~upload.form_tracker
       \/ upload.client = "tracked"
    /\ upload' = [(IF upload.form_tracker THEN upload ELSE create_tracker(upload))
                    EXCEPT !.client = "uploaded", !.status = "processing", !.job_at = "parse"]
    /\ UNCHANGED <<diff_vars, calls>>

\* process_file_async: parse_string, then the test of with_ai and AI_CONFIGURED
Parse ==
    /\ upload.job_at = "parse"
    /\ \E outcome \in Outcomes :
          upload' = [upload EXCEPT !.job_at =
                        IF outcome = "raise" THEN "fail_job"
                        ELSE IF upload.with_ai /\ upload.ai_configured THEN "cache"
                        ELSE "html"]
    /\ UNCHANGED <<diff_vars, calls>>

\* AISummaryGenerator(LLM_CONFIGS) and load_from_cache: a hit goes on to the
\* HTML, a miss to the generation
LoadFromCache ==
    /\ upload.job_at = "cache"
    /\ \E outcome \in Outcomes \cup {"hit"} :
          upload' = [upload EXCEPT !.job_at =
                        CASE outcome = "raise" -> "failed_ai"
                          [] outcome = "hit" -> "html"
                          [] OTHER -> "generate"]
    /\ UNCHANGED <<diff_vars, calls>>

\* progress_callback, called by generate_all_summaries_parallel
Progress ==
    /\ upload.job_at = "generate"
    /\ upload.completed < MaxProgress
    /\ upload' = [update(upload, upload.completed + 1) EXCEPT !.completed = @ + 1]
    /\ UNCHANGED <<diff_vars, calls>>

\* generate_all_summaries_parallel returns or raises
Generate ==
    /\ upload.job_at = "generate"
    /\ \E outcome \in Outcomes :
          upload' = [upload EXCEPT !.job_at =
                        IF outcome = "raise" THEN "failed_ai" ELSE "mark_done"]
    /\ UNCHANGED <<diff_vars, calls>>

\* progress_tracker.mark_done(tracker_id) after the generation
MarkDoneGenerated ==
    /\ upload.job_at = "mark_done"
    /\ upload' = [mark_done(upload) EXCEPT !.job_at = "save"]
    /\ UNCHANGED <<diff_vars, calls>>

\* save_to_cache
SaveToCache ==
    /\ upload.job_at = "save"
    /\ \E outcome \in Outcomes :
          upload' = [upload EXCEPT !.job_at =
                        IF outcome = "raise" THEN "failed_ai" ELSE "html"]
    /\ UNCHANGED <<diff_vars, calls>>

\* the inner except: mark_done, and the job goes on without summaries
MarkDoneFailedAI ==
    /\ upload.job_at = "failed_ai"
    /\ upload' = [mark_done(upload) EXCEPT !.job_at = "html"]
    /\ UNCHANGED <<diff_vars, calls>>

\* HTMLGenerator(...).generate_string()
GenerateHTML ==
    /\ upload.job_at = "html"
    /\ \E outcome \in Outcomes :
          upload' = [upload EXCEPT !.job_at =
                        IF outcome = "raise" THEN "fail_job" ELSE "complete"]
    /\ UNCHANGED <<diff_vars, calls>>

\* job_manager.complete_job, the last statement of the thread
CompleteJob ==
    /\ upload.job_at = "complete"
    /\ upload' = [upload EXCEPT !.status = "completed", !.job_at = "ended"]
    /\ UNCHANGED <<diff_vars, calls>>

\* the outer except: job_manager.fail_job
FailJob ==
    /\ upload.job_at = "fail_job"
    /\ upload' = [upload EXCEPT !.status = "failed", !.job_at = "failed_mark"]
    /\ UNCHANGED <<diff_vars, calls>>

\* the outer except: mark_done, the last statement of the thread
MarkDoneFailedJob ==
    /\ upload.job_at = "failed_mark"
    /\ upload' = [mark_done(upload) EXCEPT !.job_at = "ended"]
    /\ UNCHANGED <<diff_vars, calls>>

\* GET /ai-progress/<tracker_id>, which the page sends once the upload has
\* answered: generate() yields the connection message
Connect ==
    /\ upload.client = "uploaded"
    /\ upload.stream_at = "idle"
    /\ upload' = [upload EXCEPT !.stream_at = "connected"]
    /\ UNCHANGED <<diff_vars, calls>>

\* get_updates up to its loop: it returns at once for a tracker not in the
\* registry
EnterGetUpdates ==
    /\ upload.stream_at = "connected"
    /\ upload' = IF upload.present
                 THEN [upload EXCEPT !.stream_at = "waiting"]
                 ELSE [upload EXCEPT !.stream_at = "closed", !.ended_by = "absent"]
    /\ UNCHANGED <<diff_vars, calls>>

\* q.get returns a message and get_updates yields it; on a done message
\* generate() breaks out of its loop, which leaves get_updates suspended at
\* its yield: the generator is closed there and its clean-up never runs
Get ==
    /\ upload.stream_at = "waiting"
    /\ upload.queue # <<>>
    /\ upload' = [upload EXCEPT
                    !.queue = Tail(@),
                    !.received = Append(@, Head(upload.queue)),
                    !.stream_at = IF Head(upload.queue).done THEN "closed" ELSE "waiting",
                    !.ended_by = IF Head(upload.queue).done THEN "done" ELSE @]
    /\ UNCHANGED <<diff_vars, calls>>

\* where the job's thread can stay for 60 seconds: inside parse_string, the
\* cache lookup, the generation or the HTML generation, and after its end
SlowSteps == {"parse", "cache", "generate", "html", "ended"}

\* q.get raises queue.Empty after 60 seconds without a message
Timeout ==
    /\ upload.stream_at = "waiting"
    /\ upload.queue = <<>>
    /\ upload.job_at \in SlowSteps
    /\ upload' = [upload EXCEPT !.stream_at = "cleanup", !.ended_by = "timeout"]
    /\ UNCHANGED <<diff_vars, calls>>

\* the clean-up of get_updates: the tracker leaves the registry
Cleanup ==
    /\ upload.stream_at = "cleanup"
    /\ upload' = [upload EXCEPT !.present = FALSE, !.stream_at = "closed"]
    /\ UNCHANGED <<diff_vars, calls>>

ClientStep == CreateTrackerRoute \/ Upload \/ Connect

JobStep ==
    \/ Parse
    \/ LoadFromCache
    \/ Progress
    \/ Generate
    \/ MarkDoneGenerated
    \/ SaveToCache
    \/ MarkDoneFailedAI
    \/ GenerateHTML
    \/ CompleteJob
    \/ FailJob
    \/ MarkDoneFailedJob

StreamStep == EnterGetUpdates \/ Get \/ Timeout \/ Cleanup

NextUpload == ClientStep \/ JobStep \/ StreamStep

SpecUpload == InitUpload /\ [][NextUpload]_vars

\* the client sends its requests, the job's thread runs to its end, and the
\* response stream is served: q.get returns after 60 seconds at the latest
FairUpload ==
    SpecUpload /\ WF_vars(ClientStep) /\ WF_vars(JobStep) /\ WF_vars(StreamStep)

(***************************************************************************)
(* Properties of the matcher                                               *)
(***************************************************************************)
Occurs(q, x) == Cardinality({k \in DOMAIN q : q[k] = x})
Firsts(m) == [k \in DOMAIN m |-> m[k][1]]
Seconds(m) == [k \in DOMAIN m |-> m[k][2]]

\* the B object paired with the A object at position i, 0 if none
PartnerOf(i) ==
    IF \E k \in DOMAIN match_out.matched : match_out.matched[k][1] = i
    THEN match_out.matched[CHOOSE k \in DOMAIN match_out.matched :
                               match_out.matched[k][1] = i][2]
    ELSE 0

IdHit(a) == a.id # Str("") /\ \E j \in DOMAIN list_b : list_b[j].id = a.id
NumHit(a) == \E j \in DOMAIN list_b : list_b[j].category_no = a.category_no
NameHit(a) == a.name # Str("") /\ \E j \in DOMAIN list_b : list_b[j].name = a.name

SharesKey(a, b) ==
    \/ a.id # Str("") /\ a.id = b.id
    \/ a.category_no = b.category_no
    \/ a.name # Str("") /\ a.name = b.name

\* C2: every A entity occurs exactly once in total across the first
\* components of the matched pairs and only_in_a.
C2_EachAOnce ==
    pc = "matched" =>
        \A i \in DOMAIN list_a :
            Occurs(Firsts(match_out.matched), i) + Occurs(match_out.only_in_a, i) = 1

C2_Witness ==
    /\ pc = "matched"
    /\ Len(list_a) = 2
    /\ Len(match_out.matched) = 1
    /\ Len(match_out.only_in_a) = 1

\* C3: every B entity occurs exactly once in total across the second
\* components of the matched pairs and only_in_b; no B entity is paired with
\* two A entities.
C3_EachBOnce ==
    pc = "matched" =>
        \A j \in DOMAIN list_b :
            Occurs(Seconds(match_out.matched), j) + Occurs(match_out.only_in_b, j) = 1

\* C4: keys are tried in the order id, numeric key, name: an A entity whose
\* non-empty id is the id of a B entity is paired with a B entity of that id;
\* otherwise one whose number is the number of a B entity is paired with a B
\* entity of that number; otherwise one whose non-empty name is the name of a
\* B entity is paired with a B entity of that name.
C4_KeyPriority ==
    pc = "matched" =>
        \A i \in DOMAIN list_a :
            LET a == list_a[i]
                j == PartnerOf(i)
            IN  /\ IdHit(a) => j # 0 /\ list_b[j].id = a.id
                /\ ~IdHit(a) /\ NumHit(a) =>
                       j # 0 /\ list_b[j].category_no = a.category_no
                /\ ~IdHit(a) /\ ~NumHit(a) /\ NameHit(a) =>
                       j # 0 /\ list_b[j].name = a.name

\* an A entity matched by id although its number and name are those of
\* another B entity
C4_Witness ==
    /\ pc = "matched"
    /\ \E i \in DOMAIN list_a : \E j, k \in DOMAIN list_b :
          /\ j # k
          /\ IdHit(list_a[i])
          /\ list_b[j].id = list_a[i].id
          /\ list_b[j].category_no # list_a[i].category_no
          /\ list_b[j].name # list_a[i].name
          /\ list_b[k].id # list_a[i].id
          /\ list_b[k].category_no = list_a[i].category_no
          /\ list_b[k].name = list_a[i].name
          /\ list_a[i].name # Str("")
          /\ PartnerOf(i) = j

\* C5: every matched pair shares a key (equal non-empty ids, equal numbers or
\* equal non-empty names); an A entity that shares no key with any B entity
\* is only in only_in_a, a B entity that shares no key with any A entity is
\* only in only_in_b.
C5_PairsShareKey ==
    pc = "matched" =>
        /\ \A k \in DOMAIN match_out.matched :
              SharesKey(list_a[match_out.matched[k][1]], list_b[match_out.matched[k][2]])
        /\ \A i \in DOMAIN list_a :
              (\A j \in DOMAIN list_b : ~SharesKey(list_a[i], list_b[j])) =>
                  /\ Occurs(match_out.only_in_a, i) = 1
                  /\ Occurs(Firsts(match_out.matched), i) = 0
        /\ \A j \in DOMAIN list_b :
              (\A i \in DOMAIN list_a : ~SharesKey(list_a[i], list_b[j])) =>
                  /\ Occurs(match_out.only_in_b, j) = 1
                  /\ Occurs(Seconds(match_out.matched), j) = 0

\* an A entity and a B entity with no key in common, both left unmatched,
\* beside a matched pair
C5_Witness ==
    /\ pc = "matched"
    /\ Len(match_out.matched) = 1
    /\ \E i \in DOMAIN list_a : \E j \in DOMAIN list_b :
          /\ \A jj \in DOMAIN list_b : ~SharesKey(list_a[i], list_b[jj])
          /\ \A ii \in DOMAIN list_a : ~SharesKey(list_a[ii], list_b[j])
          /\ match_out.only_in_a = <<i>>
          /\ match_out.only_in_b = <<j>>

(***************************************************************************)
(* Properties of compare                                                   *)
(***************************************************************************)
\* the lists compare hands to _match_objects, with the keys it names
TopKinds ==
    <<[attr |-> "categories", name_field |-> "name", num_field |-> "category_no",
       types |-> {"Category"}],
      [attr |-> "case_definitions", name_field |-> "name", num_field |-> "case_def_no",
       types |-> {"CaseDefinition"}],
      [attr |-> "workflows", name_field |-> "name", num_field |-> "process_no",
       types |-> {"Workflow"}],
      [attr |-> "roles", name_field |-> "name", num_field |-> "role_no",
       types |-> {"Role"}],
      [attr |-> "users", name_field |-> "user_name", num_field |-> "user_no",
       types |-> {"User", "Group"}],
      [attr |-> "folders", name_field |-> "name", num_field |-> "folder_no",
       types |-> {"Folder"}],
      [attr |-> "eforms", name_field |-> "name", num_field |-> "form_no",
       types |-> {"EForm"}],
      [attr |-> "queries", name_field |-> "name", num_field |-> "query_no",
       types |-> {"Query"}],
      [attr |-> "keyword_dictionaries", name_field |-> "name",
       num_field |-> "dictionary_no", types |-> {"Dictionary"}],
      [attr |-> "tree_views", name_field |-> "name", num_field |-> "treeview_no",
       types |-> {"TreeView"}],
      [attr |-> "counters", name_field |-> "name", num_field |-> "counter_no",
       types |-> {"Counter"}],
      [attr |-> "data_types", name_field |-> "name", num_field |-> "datatype_no",
       types |-> {"DataType"}],
      [attr |-> "stamps", name_field |-> "name", num_field |-> "stamp_no",
       types |-> {"Stamp"}],
      [attr |-> "retention_policies", name_field |-> "name", num_field |-> "policy_no",
       types |-> {"RetentionPolicy"}]>>

EntitiesOf(cfg, kind) ==
    IF kind.attr = "folders" THEN _flatten_folders(cfg.folders) ELSE cfg[kind.attr]

PairsOf(kind) ==
    _match_objects(EntitiesOf(config_a, kind), EntitiesOf(config_b, kind),
                   "id", kind.name_field, kind.num_field).matched

\* the positions 1..n that are not in used, ascending
FreeOf(n, used) ==
    LET Free(k) == k \notin used IN SelectSeq([k \in 1..n |-> k], Free)

FreeA(kind) == FreeOf(Len(EntitiesOf(config_a, kind)), Range(Firsts(PairsOf(kind))))
FreeB(kind) == FreeOf(Len(EntitiesOf(config_b, kind)), Range(Seconds(PairsOf(kind))))

\* the top-level records of a kind with a change_type
RecordsOf(kind, change_type) ==
    LET Test(c) == c.object_type \in kind.types /\ c.change_type = change_type
    IN  SelectSeq(result.changes, Test)

\* the records of a list of changes at every depth
RECURSIVE AllChanges(_)
AllChanges(changes) ==
    IF changes = <<>> THEN <<>>
    ELSE <<Head(changes)>> \o AllChanges(Head(changes).nested_changes)
             \o AllChanges(Tail(changes))

\* C1: comparing a configuration with itself gives an empty changes list.
C1_SelfCompareEmpty ==
    (pc # "start" /\ aliased) => result.changes = <<>>

\* C6: for every kind the entity matcher handles, the 'removed' records of
\* compare are, one for one, the A entities that are in no matched pair, and
\* the 'added' records are, one for one, the B entities that are in no matched
\* pair; an entity of a matched pair has no such record.
C6_OnePerUnmatched ==
    pc = "done" =>
        \A n \in DOMAIN TopKinds :
            LET kind == TopKinds[n]
                la == EntitiesOf(config_a, kind)
                lb == EntitiesOf(config_b, kind)
                free_a == FreeA(kind)
                free_b == FreeB(kind)
                removed == RecordsOf(kind, "removed")
                added == RecordsOf(kind, "added")
            IN  /\ Len(removed) = Len(free_a)
                /\ \A k \in DOMAIN removed :
                       removed[k].object_id = _get_object_id(la[free_a[k]], 0)
                /\ Len(added) = Len(free_b)
                /\ \A k \in DOMAIN added :
                       added[k].object_id = _get_object_id(lb[free_b[k]], 0)

\* two configurations with a matched pair, an A entity left over and a B
\* entity left over
C6_Witness ==
    /\ pc = "done"
    /\ ~aliased
    /\ \E n \in DOMAIN TopKinds :
          /\ PairsOf(TopKinds[n]) # <<>>
          /\ FreeA(TopKinds[n]) # <<>>
          /\ FreeB(TopKinds[n]) # <<>>
          /\ RecordsOf(TopKinds[n], "removed") # <<>>
          /\ RecordsOf(TopKinds[n], "added") # <<>>

\* C7: a kind has at most as many 'modified' records as matched pairs and,
\* when the two entities of every pair are equal, none with a field change;
\* every 'modified' record of the result, at every depth, has a field change
\* or a nested change.
C7_ModifiedNotEmpty ==
    pc = "done" =>
        /\ \A n \in DOMAIN TopKinds :
              LET kind == TopKinds[n]
                  la == EntitiesOf(config_a, kind)
                  lb == EntitiesOf(config_b, kind)
                  pairs == PairsOf(kind)
                  modified == RecordsOf(kind, "modified")
              IN  /\ Len(modified) <= Len(pairs)
                  /\ (\A k \in DOMAIN pairs : la[pairs[k][1]] = lb[pairs[k][2]])
                         => \A k \in DOMAIN modified : modified[k].field_changes = <<>>
        /\ LET all == AllChanges(result.changes)
           IN  \A k \in DOMAIN all :
                   /\ all[k].change_type \in {"added", "removed", "modified"}
                   /\ all[k].change_type = "modified" =>
                          all[k].field_changes # <<>> \/ all[k].nested_changes # <<>>

\* a 'modified' record three levels deep, beside a matched pair with no record
C7_Witness ==
    /\ pc = "done"
    /\ \E k \in DOMAIN result.changes :
          LET top == result.changes[k]
          IN  /\ top.change_type = "modified"
              /\ \E i \in DOMAIN top.nested_changes :
                    LET mid == top.nested_changes[i]
                    IN  /\ mid.change_type = "modified"
                        /\ \E j \in DOMAIN mid.nested_changes :
                              mid.nested_changes[j].change_type = "modified"
    /\ Len(PairsOf(TopKinds[3])) = 2
    /\ Len(RecordsOf(TopKinds[3], "modified")) = 1

\* the declared str fields that hold None on some entity, with the name
\* their FieldChange carries
BlankFields == [description |-> "description", format_string |-> "Format",
                filename |-> "Filename"]

\* one value is "" and the other None
BlankPair(x, y) == (x = Str("") /\ y = None) \/ (x = None /\ y = Str(""))

\* the two entities are equal up to "" against None
BlankEq(a, b) ==
    \A f \in DOMAIN a :
        a[f] = b[f] \/ (f \in DOMAIN BlankFields /\ BlankPair(a[f], b[f]))

\* C8: the 'modified' record of a matched pair has no FieldChange for a
\* declared field that is "" on one side and None on the other, and a kind
\* whose matched pairs differ in nothing else has no 'modified' record with a
\* field change.
C8_BlankIsUnset ==
    pc = "done" =>
        \A n \in DOMAIN TopKinds :
            LET kind == TopKinds[n]
                la == EntitiesOf(config_a, kind)
                lb == EntitiesOf(config_b, kind)
                pairs == PairsOf(kind)
                modified == RecordsOf(kind, "modified")
            IN  /\ (\A k \in DOMAIN pairs : BlankEq(la[pairs[k][1]], lb[pairs[k][2]]))
                       => \A k \in DOMAIN modified : modified[k].field_changes = <<>>
                /\ \A f \in DOMAIN BlankFields :
                       (/\ pairs # <<>>
                        /\ \A k \in DOMAIN pairs :
                              /\ f \in DOMAIN la[pairs[k][1]]
                              /\ BlankPair(la[pairs[k][1]][f], lb[pairs[k][2]][f]))
                       => \A k \in DOMAIN modified :
                              \A c \in DOMAIN modified[k].field_changes :
                                  modified[k].field_changes[c].field_name # BlankFields[f]

\* a pair that is 'modified' for another reason while its description is ""
\* on one side and None on the other
C8_Witness ==
    /\ pc = "done"
    /\ \E n \in DOMAIN TopKinds :
          LET kind == TopKinds[n]
              la == EntitiesOf(config_a, kind)
              lb == EntitiesOf(config_b, kind)
              pairs == PairsOf(kind)
          IN  /\ Len(pairs) = 1
              /\ "description" \in DOMAIN la[pairs[1][1]]
              /\ BlankPair(la[pairs[1][1]].description, lb[pairs[1][2]].description)
              /\ Len(RecordsOf(kind, "modified")) = 1
              /\ RecordsOf(kind, "modified")[1].field_changes # <<>>

\* the number of top-level records of an object type and a change_type
CountOf(object_type, change_type) ==
    Cardinality({k \in DOMAIN result.changes :
                    /\ result.changes[k].object_type = object_type
                    /\ result.changes[k].change_type = change_type})

\* C9: summary holds, for every object type with a top-level record, the
\* numbers of its added, removed and modified top-level records, and no
\* entry for an object type without a record.
C9_SummaryCounts ==
    pc = "read" =>
        LET s == result._summary[2]
        IN  /\ DOMAIN s = {result.changes[k].object_type : k \in DOMAIN result.changes}
            /\ \A t \in DOMAIN s :
                  /\ s[t].added = CountOf(t, "added")
                  /\ s[t].removed = CountOf(t, "removed")
                  /\ s[t].modified = CountOf(t, "modified")
                  /\ s[t].added + s[t].removed + s[t].modified
                         = Len(get_changes_by_type(result, t))

\* a summary of three object types, one of them with two records
C9_Witness ==
    /\ pc = "read"
    /\ Cardinality(DOMAIN result._summary[2]) >= 3
    /\ \E t \in DOMAIN result._summary[2] :
          /\ result._summary[2][t].removed >= 1
          /\ result._summary[2][t].added >= 1
    /\ \E t \in DOMAIN result._summary[2] : result._summary[2][t].modified >= 1

\* C10: walking object_types_with_changes and, for each type, the list
\* get_changes_by_type returns shows every record of changes as many times as
\* it is in changes, records of a type outside the display order included.
C10_EveryChangeOnce ==
    pc = "shown" =>
        /\ Len(shown) = Len(result.changes)
        /\ \A k \in DOMAIN result.changes :
              Occurs(shown, result.changes[k]) = Occurs(result.changes, result.changes[k])

\* a walk over records of two types outside the display order, after a type
\* of the order, in an order that is not the order of changes
C10_Witness ==
    /\ pc = "shown"
    /\ Len(result.changes) = 3
    /\ result.changes[1].object_type = "Task"
    /\ result.changes[2].object_type = "Field"
    /\ result.changes[3].object_type = "Workflow"
    /\ shown = <<result.changes[3], result.changes[2], result.changes[1]>>

\* C11: a second run of compare on the same two snapshots returns the result
\* of the first run: the same changes in the same order, equal in object_type,
\* object_name, object_id, change_type, field_changes and nested_changes at
\* every depth.
C11_Deterministic ==
    pc = "rerun" => result_2.changes = result.changes

\* the list without its k-th element
RemoveAt(list, k) == SubSeq(list, 1, k - 1) \o SubSeq(list, k + 1, Len(list))

\* two fields share a key the matcher of _compare_category_fields looks up
FieldsShareKey(f, g) ==
    \/ Truthy(f.id) /\ f.id = g.id
    \/ f.field_no = g.field_no
    \/ Truthy(f.caption) /\ f.caption = g.caption

\* the only category of B is the only category of A with one more field, at
\* position k of its field list, which shares no key with a field of A
OneExtraField(k) ==
    LET cat_a == config_a.categories[1]
        cat_b == config_b.categories[1]
    IN  /\ k \in DOMAIN cat_b.fields
        /\ [cat_b EXCEPT !.fields = cat_a.fields] = cat_a
        /\ RemoveAt(cat_b.fields, k) = cat_a.fields
        /\ \A i \in DOMAIN cat_a.fields : ~FieldsShareKey(cat_a.fields[i], cat_b.fields[k])

\* C12: for a matched category pair that differs only in one extra field of
\* B that matches no field of A, the diff holds exactly one change: a
\* 'modified' Category with no field changes and exactly one nested change,
\* an 'added' Field.
C12_OneAddedField ==
    (/\ pc = "done"
     /\ ~aliased
     /\ Len(config_a.categories) = 1
     /\ Len(config_b.categories) = 1
     /\ \E k \in 1..3 : OneExtraField(k))
    => /\ Len(result.changes) = 1
       /\ result.changes[1].object_type = "Category"
       /\ result.changes[1].change_type = "modified"
       /\ result.changes[1].field_changes = <<>>
       /\ Len(result.changes[1].nested_changes) = 1
       /\ result.changes[1].nested_changes[1].object_type = "Field"
       /\ result.changes[1].nested_changes[1].change_type = "added"

\* the transitions of every task of every workflow of a configuration
TransitionsOf(cfg) ==
    UNION {UNION {Range(cfg.workflows[w].tasks[t].transitions) :
                    t \in DOMAIN cfg.workflows[w].tasks} : w \in DOMAIN cfg.workflows}

\* a 'modified' Transition record stands for a transition of A and one of B
\* with the same action text and the same destination task number, and
\* carries their two conditions
PairedOnActionAndTarget(c) ==
    \E tr_a \in TransitionsOf(config_a), tr_b \in TransitionsOf(config_b) :
        /\ tr_a.action_text = tr_b.action_text
        /\ tr_a.task_to_no = tr_b.task_to_no
        /\ c.object_id = TransitionId(tr_b)
        /\ c.field_changes[1].old_value = Normalize(tr_a.condition)
        /\ c.field_changes[1].new_value = Normalize(tr_b.condition)

\* C13: within a matched task pair, transitions are paired only if both
\* their action text and their destination task number are equal; a paired
\* transition is reported as one 'modified' Transition with a single
\* FieldChange, on the condition, and the owning task is reported as
\* 'modified' even when none of its own fields changed.
C13_TransitionsByActionAndTarget ==
    pc = "done" =>
        LET all == AllChanges(result.changes)
        IN  \A k \in DOMAIN all :
                /\ (all[k].object_type = "Transition" /\ all[k].change_type = "modified") =>
                       /\ Len(all[k].field_changes) = 1
                       /\ all[k].field_changes[1].field_name = "Condition"
                       /\ all[k].nested_changes = <<>>
                       /\ PairedOnActionAndTarget(all[k])
                /\ (all[k].object_type = "Task" /\ all[k].nested_changes # <<>>) =>
                       all[k].change_type = "modified"

\* the place of a str among the strs of the model, in ascending order
StrRank(v) == CHOOSE p \in DOMAIN SortedStrs : Str(SortedStrs[p]) = v

\* v is the list of the elements of the set S of strs, each once, ascending
IsSortedListOf(v, S) ==
    /\ v[1] = "list"
    /\ Len(v[2]) = Cardinality(S)
    /\ Range(v[2]) = S
    /\ \A i, j \in DOMAIN v[2] : i < j => StrRank(v[2][i]) < StrRank(v[2][j])

\* the field changes of a record that are named field_name
FieldChangesNamed(c, field_name) ==
    LET Test(fc) == fc.field_name = field_name IN SelectSeq(c.field_changes, Test)

KindRole == TopKinds[4]

\* the configurations hold one role each and the matcher pairs the two
OneRolePair ==
    /\ Len(config_a.roles) = 1
    /\ Len(config_b.roles) = 1
    /\ PairsOf(KindRole) # <<>>

\* C14: for a matched role pair the assigned users are compared as the set of
\* their user names: when the sets differ the role's record has exactly one
\* FieldChange named 'Assigned Users', holding the full sorted lists of old
\* and new names, and no per-user records; when the sets are equal, whatever
\* the order or the duplicates of the lists, there is no such FieldChange.
C14_RoleUsersAsSet ==
    (pc = "done" /\ OneRolePair) =>
        LET role_a == config_a.roles[1]
            role_b == config_b.roles[1]
            names_a == {role_a.users[k].user_name : k \in DOMAIN role_a.users}
            names_b == {role_b.users[k].user_name : k \in DOMAIN role_b.users}
            recs == RecordsOf(KindRole, "modified")
        IN  IF names_a # names_b
            THEN /\ Len(recs) = 1
                 /\ Len(FieldChangesNamed(recs[1], "Assigned Users")) = 1
                 /\ IsSortedListOf(FieldChangesNamed(recs[1], "Assigned Users")[1].old_value,
                                   names_a)
                 /\ IsSortedListOf(FieldChangesNamed(recs[1], "Assigned Users")[1].new_value,
                                   names_b)
                 /\ recs[1].nested_changes = <<>>
            ELSE \A k \in DOMAIN recs : FieldChangesNamed(recs[k], "Assigned Users") = <<>>

\* a role with one user against the same role with the users bob, alice, bob:
\* the record lists alice, then alice and bob
C14_Witness ==
    /\ pc = "done"
    /\ OneRolePair
    /\ Len(config_a.roles[1].users) = 1
    /\ Len(config_b.roles[1].users) = 3
    /\ Len(result.changes) = 1
    /\ FieldChangesNamed(result.changes[1], "Assigned Users")
          = <<FieldChange("Assigned Users", List(<<Str("alice")>>),
                          List(<<Str("alice"), Str("bob")>>), "modified")>>

\* two roles whose user lists hold the same names in another order, one of
\* them twice: no 'Assigned Users' FieldChange
C14_WitnessEqualSets ==
    /\ pc = "done"
    /\ OneRolePair
    /\ Len(config_a.roles[1].users) = 2
    /\ Len(config_b.roles[1].users) = 3
    /\ result.changes = <<>>

KindDictionary == TopKinds[9]

\* the configurations hold one dictionary each and the matcher pairs the two
OneDictionaryPair ==
    /\ Len(config_a.keyword_dictionaries) = 1
    /\ Len(config_b.keyword_dictionaries) = 1
    /\ PairsOf(KindDictionary) # <<>>

\* the records of a list that are about the object named name, with a type
\* and a change_type
RecordsAbout(changes, object_type, change_type, name) ==
    LET Test(c) == /\ c.object_type = object_type
                   /\ c.change_type = change_type
                   /\ c.object_name = name
    IN  SelectSeq(changes, Test)

\* C15: for a matched dictionary pair the keywords are compared as sets of
\* values: the dictionary's record nests exactly one 'added' Keyword for
\* each value of B that is not in A, exactly one 'removed' Keyword for each
\* value of A that is not in B, and no record for a value in both; the
\* dictionary is 'modified' whenever there is at least one such record.
C15_KeywordsAsSets ==
    (pc = "done" /\ OneDictionaryPair) =>
        LET d_a == config_a.keyword_dictionaries[1]
            d_b == config_b.keyword_dictionaries[1]
            values_a == {d_a.keywords[k].value : k \in DOMAIN d_a.keywords}
            values_b == {d_b.keywords[k].value : k \in DOMAIN d_b.keywords}
            recs == RecordsOf(KindDictionary, "modified")
            nested == IF recs = <<>> THEN <<>> ELSE recs[1].nested_changes
        IN  /\ Len(recs) <= 1
            /\ values_a # values_b => Len(recs) = 1
            /\ \A v \in values_b \ values_a :
                   Len(RecordsAbout(nested, "Keyword", "added", v)) = 1
            /\ \A v \in values_a \ values_b :
                   Len(RecordsAbout(nested, "Keyword", "removed", v)) = 1
            /\ \A k \in DOMAIN nested :
                   /\ nested[k].object_type = "Keyword"
                   /\ nested[k].change_type \in {"added", "removed"}
                   /\ nested[k].object_name \notin values_a \cap values_b
            /\ Len(nested) = Cardinality(values_b \ values_a) + Cardinality(values_a \ values_b)

\* a dictionary with the keywords red, blue, red against the same dictionary
\* with blue and green: red removed, green added, nothing about blue
C15_Witness ==
    /\ pc = "done"
    /\ OneDictionaryPair
    /\ Len(config_a.keyword_dictionaries[1].keywords) = 3
    /\ Len(result.changes) = 1
    /\ result.changes[1].change_type = "modified"
    /\ Len(result.changes[1].nested_changes) = 2
    /\ RecordsAbout(result.changes[1].nested_changes, "Keyword", "added", Str("green")) # <<>>
    /\ RecordsAbout(result.changes[1].nested_changes, "Keyword", "removed", Str("red")) # <<>>

\* the (object type, object number, role number, user number) of the
\* assignments of a list
AssignmentKeys(list) ==
    {<<list[k].obj_type, list[k].obj_no, list[k].role_no, list[k].user_no>> : k \in DOMAIN list}

\* the RoleAssignment records of the result with a change_type that are
\* about the key
AssignmentRecords(change_type, key) ==
    LET Test(c) ==
            /\ c.object_type = "RoleAssignment"
            /\ c.change_type = change_type
            /\ c.object_id = Str(StrText(key[1]) \o ":" \o StrText(key[2]) \o ":"
                                   \o StrText(key[3]) \o ":" \o StrText(key[4]))
    IN  SelectSeq(result.changes, Test)

\* C16: role assignments are diffed as sets of keys (object type, object
\* number, role number, user number): exactly one 'added' record for each key
\* of B absent from A, exactly one 'removed' record for each key of A absent
\* from B, no record for a key in both, and never a 'modified' record.
C16_AssignmentsAsKeySets ==
    pc = "done" =>
        LET keys_a == AssignmentKeys(config_a.role_assignments)
            keys_b == AssignmentKeys(config_b.role_assignments)
        IN  /\ \A key \in keys_b \ keys_a :
                   /\ Len(AssignmentRecords("added", key)) = 1
                   /\ AssignmentRecords("removed", key) = <<>>
            /\ \A key \in keys_a \ keys_b :
                   /\ Len(AssignmentRecords("removed", key)) = 1
                   /\ AssignmentRecords("added", key) = <<>>
            /\ \A key \in keys_a \cap keys_b :
                   /\ AssignmentRecords("added", key) = <<>>
                   /\ AssignmentRecords("removed", key) = <<>>
            /\ \A k \in DOMAIN result.changes :
                   result.changes[k].object_type = "RoleAssignment" =>
                       /\ result.changes[k].change_type \in {"added", "removed"}
                       /\ \E key \in keys_a \cup keys_b :
                              \E ct \in {"added", "removed"} :
                                  AssignmentRecords(ct, key) = <<result.changes[k]>>

\* two assignments on each side: one key on both sides, held by assignments
\* that differ in sub_obj_no and role_name, one key only in A, one only in B
C16_Witness ==
    /\ pc = "done"
    /\ Len(config_a.role_assignments) = 2
    /\ Len(config_b.role_assignments) = 2
    /\ config_a.role_assignments[1] # config_b.role_assignments[1]
    /\ AssignmentKeys(<<config_a.role_assignments[1]>>)
          = AssignmentKeys(<<config_b.role_assignments[1]>>)
    /\ Len(result.changes) = 2
    /\ result.changes[1].change_type = "added"
    /\ result.changes[2].change_type = "removed"

\* y is the folder x under another parent: the same id, number, name and
\* type, another parent_no
FolderMoved(x, y) ==
    /\ y.id = x.id
    /\ y.folder_no = x.folder_no
    /\ y.name = x.name
    /\ y.folder_type = x.folder_type
    /\ Normalize(y.parent_no) # Normalize(x.parent_no)

\* the Folder records of the result about a folder: its name and, as
\* object_id, its id or else its number
FolderRecords(folder) ==
    LET Test(c) ==
            /\ c.object_type = "Folder"
            /\ c.object_name = folder.name
            /\ c.object_id = (IF Truthy(folder.id) THEN folder.id
                              ELSE Str(StrText(folder.folder_no)))
    IN  SelectSeq(result.changes, Test)

\* C17: folders are matched on the flattened list, whatever the hierarchy: a
\* folder that keeps its identity keys but sits under another parent in B is
\* reported as one 'modified' Folder with a 'Parent Folder' FieldChange, and
\* never as 'removed' or 'added'.
C17_MovedFolderIsModified ==
    pc = "done" =>
        LET folders_a == _flatten_folders(config_a.folders)
            folders_b == _flatten_folders(config_b.folders)
        IN  \A i \in DOMAIN folders_a, j \in DOMAIN folders_b :
                FolderMoved(folders_a[i], folders_b[j]) =>
                    LET about == FolderRecords(folders_b[j])
                    IN  /\ Len(about) = 1
                        /\ about[1].change_type = "modified"
                        /\ FieldChangesNamed(about[1], "Parent Folder")
                              = <<FieldChange("Parent Folder",
                                              Normalize(folders_a[i].parent_no),
                                              Normalize(folders_b[j].parent_no), "modified")>>

KindRetentionPolicy == TopKinds[14]

\* the configurations hold one retention policy each and the matcher pairs
\* the two
OnePolicyPair ==
    /\ Len(config_a.retention_policies) = 1
    /\ Len(config_b.retention_policies) = 1
    /\ PairsOf(KindRetentionPolicy) # <<>>

\* C18: for a matched retention policy pair the assigned categories are
\* compared by count only: the policy's record has an 'Assigned Categories'
\* FieldChange if and only if the number of assigned categories of A and of B
\* differ; other categories in the same number give no FieldChange.
C18_CategoriesByCount ==
    (pc = "done" /\ OnePolicyPair) =>
        LET p_a == config_a.retention_policies[1]
            p_b == config_b.retention_policies[1]
            recs == RecordsOf(KindRetentionPolicy, "modified")
            emitted == \E k \in DOMAIN recs :
                          FieldChangesNamed(recs[k], "Assigned Categories") # <<>>
        IN  emitted <=> Len(p_a.categories) # Len(p_b.categories)

\* the fixed order of the recognised kinds
DisplayOrder ==
    <<"Category", "CaseDefinition", "Workflow", "Role", "User", "Group", "Folder", "EForm",
      "Query", "Dictionary", "TreeView", "Counter", "DataType", "Stamp", "RetentionPolicy",
      "RoleAssignment">>

\* the kinds no entry of the fixed order names, in alphabetical order
Alphabetical == <<"Field", "Keyword", "Task", "Transition">>

\* the place of a kind: its place in the fixed order or, for a kind outside
\* it, a place behind the fixed order, alphabetically
DisplayRank(t) ==
    IF \E p \in DOMAIN DisplayOrder : DisplayOrder[p] = t
    THEN CHOOSE p \in DOMAIN DisplayOrder : DisplayOrder[p] = t
    ELSE Len(DisplayOrder) + (CHOOSE p \in DOMAIN Alphabetical : Alphabetical[p] = t)

\* C19: object_types_with_changes returns exactly the kinds that occur in
\* changes, each once: first the recognised kinds in the fixed order, then
\* every unrecognised kind in alphabetical order.
C19_TypesInDisplayOrder ==
    pc = "shown" =>
        /\ Range(shown_types) = {result.changes[k].object_type : k \in DOMAIN result.changes}
        /\ \A i, j \in DOMAIN shown_types :
               i < j => DisplayRank(shown_types[i]) < DisplayRank(shown_types[j])

\* changes that hold a Task record, then a User record, then a Role record:
\* the kinds come back as Role, User, Task
C19_Witness ==
    /\ pc = "shown"
    /\ Len(result.changes) = 3
    /\ result.changes[1].object_type = "Task"
    /\ result.changes[2].object_type = "User"
    /\ result.changes[3].object_type = "Role"
    /\ shown_types = <<"Role", "User", "Task">>

\* the number of field changes of the records of a list
RECURSIVE FieldChangeCount(_)
FieldChangeCount(changes) ==
    IF changes = <<>> THEN 0
    ELSE Len(Head(changes).field_changes) + FieldChangeCount(Tail(changes))

\* C20 as stated: the total-changes weight of an ObjectChange counts the
\* ObjectChange itself as 1 and adds, when it is 'modified', the weights of
\* its nested changes, so that an 'added' or 'removed' ObjectChange weighs 1.
C20_WeightCountsItself ==
    pc = "totalled" =>
        \A k \in DOMAIN totals :
            /\ totals[k] = total_changes_CountingItself(result.changes[k])
            /\ result.changes[k].change_type \in {"added", "removed"} => totals[k] = 1

\* C20, amended: the total-changes weight of an ObjectChange does not count
\* the ObjectChange itself; it counts its field changes and, for each nested
\* change, 1 plus the weight of the nested change when that one is
\* 'modified'. For the records compare returns this is the number of
\* records nested in the record at every depth plus the number of field
\* changes of the record and of those nested records, and an 'added' or
\* 'removed' record weighs 0 and adds exactly 1 to the record it is nested in.
C20_WeightCountsContents ==
    pc = "totalled" =>
        \A k \in DOMAIN totals :
            LET c == result.changes[k]
                below == AllChanges(c.nested_changes)
            IN  /\ totals[k] = Len(below) + FieldChangeCount(<<c>> \o below)
                /\ c.change_type \in {"added", "removed"} => totals[k] = 0
                /\ (\A n \in DOMAIN c.nested_changes :
                        /\ c.nested_changes[n].change_type \in {"added", "removed"}
                        /\ c.nested_changes[n].field_changes = <<>>)
                   => totals[k] = Len(c.field_changes) + Len(c.nested_changes)

\* a result whose first record is 'added' and weighs 0, and whose second
\* record is 'modified' without field changes of its own, with at least
\* three records below it, one of them with a field change
C20_Witness ==
    /\ pc = "totalled"
    /\ Len(result.changes) = 2
    /\ result.changes[1].change_type = "added"
    /\ totals[1] = 0
    /\ result.changes[2].change_type = "modified"
    /\ result.changes[2].field_changes = <<>>
    /\ Len(AllChanges(result.changes[2].nested_changes)) >= 3
    /\ FieldChangeCount(AllChanges(result.changes[2].nested_changes)) >= 1
    /\ totals[2] >= 4

(***************************************************************************)
(* Colliding keys in list_b                                                *)
(***************************************************************************)
\* the key by which an A entity matches: the first of id, number and name
\* that some B entity holds
MatchKeyOf(a) ==
    IF IdHit(a) THEN "id"
    ELSE IF NumHit(a) THEN "category_no"
    ELSE IF NameHit(a) THEN "name"
    ELSE NoField

\* the positions of the B entities that hold the key by which a matches
Holders(a) ==
    {j \in DOMAIN list_b :
        MatchKeyOf(a) # NoField /\ list_b[j][MatchKeyOf(a)] = a[MatchKeyOf(a)]}

LastOf(S) == CHOOSE j \in S : \A k \in S : k <= j

\* C21: when two B entities share the key by which an A entity matches, the A
\* entity is paired with the later of the two, and the earlier one stays
\* unmatched: it is in only_in_b and in no pair.
C21_EarlierStaysUnmatched ==
    pc = "matched" =>
        \A i \in DOMAIN list_a : \A j, k \in Holders(list_a[i]) :
            j < k =>
                /\ PartnerOf(i) = k
                /\ Occurs(match_out.only_in_b, j) = 1
                /\ Occurs(Seconds(match_out.matched), j) = 0

\* C21, amended: when several B entities share the key by which an A entity
\* matches, the A entity is paired with the last of them in list order; an
\* earlier one whose field values all equal those of the paired one is in no
\* pair and is once in only_in_b; any earlier one that is in no pair is once
\* in only_in_b.
C21_LastHolderWins ==
    pc = "matched" =>
        \A i \in DOMAIN list_a :
            LET H == Holders(list_a[i])
            IN  H # {} =>
                    /\ PartnerOf(i) = LastOf(H)
                    /\ \A j \in H \ {LastOf(H)} :
                          /\ list_b[j] = list_b[LastOf(H)] =>
                                 Occurs(Seconds(match_out.matched), j) = 0
                          /\ Occurs(Seconds(match_out.matched), j) = 0 =>
                                 Occurs(match_out.only_in_b, j) = 1

\* two B entities with equal field values: the A entity is paired with the
\* second, the first is left in only_in_b
C21_Witness ==
    /\ pc = "matched"
    /\ Len(list_a) = 1
    /\ Len(list_b) = 2
    /\ list_b[1] = list_b[2]
    /\ match_out.matched = <<(<<1, 2>>)>>
    /\ match_out.only_in_b = <<1>>

(***************************************************************************)
(* The values a FieldChange carries                                        *)
(***************************************************************************)
\* C22: a FieldChange of the field differ carries as old_value and new_value
\* the values the two entities of the pair hold for the field, unaltered:
\* for a kind with one matched pair and one 'modified' record, each
\* FieldChange of a declared text field holds the A entity's and the B
\* entity's value of it.
C22_RawValues ==
    pc = "done" =>
        \A n \in DOMAIN TopKinds :
            LET kind == TopKinds[n]
                la == EntitiesOf(config_a, kind)
                lb == EntitiesOf(config_b, kind)
                pairs == PairsOf(kind)
                modified == RecordsOf(kind, "modified")
            IN  Len(pairs) = 1 /\ Len(modified) = 1 =>
                    \A c \in DOMAIN modified[1].field_changes :
                        \A f \in DOMAIN BlankFields :
                            LET change == modified[1].field_changes[c]
                            IN  /\ f \in DOMAIN la[pairs[1][1]]
                                /\ change.field_name = BlankFields[f]
                                => /\ change.old_value = la[pairs[1][1]][f]
                                   /\ change.new_value = lb[pairs[1][2]][f]

(***************************************************************************)
(* Nested collections                                                      *)
(***************************************************************************)
\* the nested changes of the only record of a list, none for an empty list
NestedOf(records) == IF records = <<>> THEN <<>> ELSE records[1].nested_changes

\* how many records of a list have an object type and a change_type
CountIn(changes, object_type, change_type) ==
    Cardinality({k \in DOMAIN changes :
                    /\ changes[k].object_type = object_type
                    /\ changes[k].change_type = change_type})

\* the records of a list with an object type and a change_type
Only(changes, object_type, change_type) ==
    LET Test(c) == c.object_type = object_type /\ c.change_type = change_type
    IN  SelectSeq(changes, Test)

\* the positions of the transitions of xs whose key no transition of ys has
TransitionsOnlyIn(xs, ys) ==
    {i \in DOMAIN xs : \A j \in DOMAIN ys : trans_key(xs[i]) # trans_key(ys[j])}

\* the fields of the only category pair: one nested record per unmatched
\* field, at most one per matched pair
FieldsPartition ==
    (/\ Len(config_a.categories) = 1
     /\ Len(config_b.categories) = 1
     /\ PairsOf(TopKinds[1]) # <<>>) =>
        LET m == _match_objects(config_a.categories[1].fields,
                                config_b.categories[1].fields,
                                "id", "caption", "field_no")
            nested == NestedOf(RecordsOf(TopKinds[1], "modified"))
        IN  /\ CountIn(nested, "Field", "removed") = Len(m.only_in_a)
            /\ CountIn(nested, "Field", "added") = Len(m.only_in_b)
            /\ CountIn(nested, "Field", "modified") <= Len(m.matched)

\* the configurations hold one workflow each and the matcher pairs the two
OneWorkflowPair ==
    /\ Len(config_a.workflows) = 1
    /\ Len(config_b.workflows) = 1
    /\ PairsOf(TopKinds[3]) # <<>>

\* the match of the tasks of the only workflow pair
TaskMatch ==
    _match_objects(config_a.workflows[1].tasks, config_b.workflows[1].tasks,
                   "id", "name", "task_no")

\* the workflows hold one task each and the matcher pairs the two
OneTaskPair ==
    /\ OneWorkflowPair
    /\ Len(config_a.workflows[1].tasks) = 1
    /\ Len(config_b.workflows[1].tasks) = 1
    /\ TaskMatch.matched # <<>>

\* the tasks of the only workflow pair
TasksPartition ==
    OneWorkflowPair =>
        LET nested == NestedOf(RecordsOf(TopKinds[3], "modified"))
        IN  /\ CountIn(nested, "Task", "removed") = Len(TaskMatch.only_in_a)
            /\ CountIn(nested, "Task", "added") = Len(TaskMatch.only_in_b)
            /\ CountIn(nested, "Task", "modified") <= Len(TaskMatch.matched)

\* the transitions of the only task pair
TransitionsPartition ==
    OneTaskPair =>
        LET trans_a == config_a.workflows[1].tasks[1].transitions
            trans_b == config_b.workflows[1].tasks[1].transitions
            nested == NestedOf(RecordsOf(TopKinds[3], "modified"))
            inner == NestedOf(Only(nested, "Task", "modified"))
        IN  /\ CountIn(inner, "Transition", "removed")
                  = Cardinality(TransitionsOnlyIn(trans_a, trans_b))
            /\ CountIn(inner, "Transition", "added")
                  = Cardinality(TransitionsOnlyIn(trans_b, trans_a))
            /\ CountIn(inner, "Transition", "modified")
                  <= Cardinality({p \in (DOMAIN trans_a) \X (DOMAIN trans_b) :
                        trans_key(trans_a[p[1]]) = trans_key(trans_b[p[2]])})

\* C23: within a matched parent pair every nested entity only in A gives
\* exactly one nested 'removed' record, every one only in B exactly one
\* nested 'added' record, and the matched nested pairs give at most one
\* nested 'modified' record each: for the fields of a category pair, the
\* tasks of a workflow pair and the transitions of a task pair.
C23_NestedPartition ==
    pc = "done" => FieldsPartition /\ TasksPartition /\ TransitionsPartition

C25_SummaryFollowsChanges ==
    pc = "reread" =>
        /\ DOMAIN result._summary[2]
              = {result.changes[k].object_type : k \in DOMAIN result.changes}
        /\ \A t \in DOMAIN result._summary[2] :
              /\ result._summary[2][t].added = CountOf(t, "added")
              /\ result._summary[2][t].removed = CountOf(t, "removed")
              /\ result._summary[2][t].modified = CountOf(t, "modified")

(***************************************************************************)
(* The identity of a role assignment                                       *)
(***************************************************************************)
\* the two assignments differ in exactly one field
DiffersInOneField(x, y) == Cardinality({f \in DOMAIN x : x[f] # y[f]}) = 1

\* C26: every field of a role assignment is part of its identity: when the
\* only assignment of A is replaced in B by one that differs from it in a
\* single field, sub_obj_no included, the result holds the A assignment as
\* 'removed' and the B assignment as 'added'.
C26_EveryFieldIsIdentity ==
    (/\ pc = "done"
     /\ Len(config_a.role_assignments) = 1
     /\ Len(config_b.role_assignments) = 1
     /\ DiffersInOneField(config_a.role_assignments[1], config_b.role_assignments[1]))
    => /\ CountIn(result.changes, "RoleAssignment", "removed") = 1
       /\ CountIn(result.changes, "RoleAssignment", "added") = 1

(***************************************************************************)
(* The permissions of a role                                               *)
(***************************************************************************)
\* C27: for a matched role pair whose permission bit mask differs, the result
\* holds a 'modified' Role record with a FieldChange named 'Permissions'.
C27_PermissionsReported ==
    (/\ pc = "done"
     /\ OneRolePair
     /\ config_a.roles[1].permission # config_b.roles[1].permission)
    => /\ Len(RecordsOf(KindRole, "modified")) = 1
       /\ FieldChangesNamed(RecordsOf(KindRole, "modified")[1], "Permissions") # <<>>

(***************************************************************************)
(* The object_id of a record                                               *)
(***************************************************************************)
\* the identifier of an entity itself: its GUID when it has one, otherwise its
\* own sequence number
OwnId(obj, num_field) == IF Truthy(obj.id) THEN str(obj.id) ELSE str(obj[num_field])

\* the fields of the categories and case definitions of a configuration
FieldsOf(cfg) ==
    UNION ({Range(cfg.categories[c].fields) : c \in DOMAIN cfg.categories}
           \cup {Range(cfg.case_definitions[c].fields) : c \in DOMAIN cfg.case_definitions})

\* the tasks of the workflows of a configuration
TasksOf(cfg) == UNION {Range(cfg.workflows[w].tasks) : w \in DOMAIN cfg.workflows}

\* C28: the object_id of a record identifies the changed entity itself: it is
\* the GUID of an entity of that kind of A or B or, for an entity without a
\* GUID, its own sequence number, for the top-level records of every kind
\* and for the nested Field and Task records.
C28_OwnIdentifier ==
    pc = "done" =>
        LET all == AllChanges(result.changes)
        IN  /\ \A k \in DOMAIN result.changes : \A n \in DOMAIN TopKinds :
                  result.changes[k].object_type \in TopKinds[n].types =>
                      \E e \in Range(EntitiesOf(config_a, TopKinds[n]))
                                  \cup Range(EntitiesOf(config_b, TopKinds[n])) :
                          result.changes[k].object_id = OwnId(e, TopKinds[n].num_field)
            /\ \A k \in DOMAIN all :
                  /\ all[k].object_type = "Field" =>
                         \E f \in FieldsOf(config_a) \cup FieldsOf(config_b) :
                             all[k].object_id = OwnId(f, "field_no")
                  /\ all[k].object_type = "Task" =>
                         \E t \in TasksOf(config_a) \cup TasksOf(config_b) :
                             all[k].object_id = OwnId(t, "task_no")

(***************************************************************************)
(* Properties of two calls on one DiffComparator                           *)
(***************************************************************************)
\* C29: a call of compare that has returned, made while another call ran on
\* the same DiffComparator with other snapshots, returned the DiffResult that
\* compare returns for its own two arguments run alone.
C29_CallsIsolated ==
    \A t \in Threads :
        calls.at[t] = "returned" =>
            calls.returned[t]
                = compare(calls.args[t].config_a, calls.args[t].config_b, "a.xml", "b.xml")

(***************************************************************************)
(* Properties of the upload job's progress tracker                         *)
(***************************************************************************)
\* C30: once the tracker of an upload job is created and the job is started,
\* a done message is eventually put on the tracker's queue, on every path of
\* the job.
C30_DoneEventuallyPut == (upload.client = "uploaded") ~> upload.done

====
